---- MODULE Spec2Model ----
(***************************************************************************)
(* A model of FlipeX's PDF text-reconstruction core (src/lib/pdfProcessor.ts *)
(* and the image-mode processor): header/footer detection, line building,   *)
(* chapter segmentation and pagination.                                     *)
(*                                                                          *)
(* A JavaScript string is modelled as a sequence of one-character strings,  *)
(* so that slice, trim, lastIndexOf and the regular expressions of the      *)
(* source are computed character by character.                              *)
(***************************************************************************)
EXTENDS Integers, Sequences, FiniteSets, TLC

VARIABLES
    pc,          \* position of the operation under analysis
    paragraphs,  \* segmentIntoPages: the `paragraphs` argument
    seg,         \* segmentIntoPages: pages, currentPage, currentCharCount, pi, remaining
    iterations,  \* segmentIntoPages: iterations of the oversized-paragraph loop so far
    result,      \* segmentIntoPages: the returned page list
    entry,       \* the entry point running: "text" (processPDF) or "images" (processPDFAsImages)
    allLines,    \* processPDF: the lines of all pages, with a '' after each page
    numPages,    \* processPDFAsImages: pdf.numPages
    stream,      \* buildChapters: the `paragraphs` argument
    bi,          \* buildChapters: paragraphs of the stream consumed by the for loop
    chapters,    \* buildChapters: `chapters`; then the document's chapters
    currentChapter,  \* buildChapters: `currentChapter`
    totalPages,      \* ProcessedDocument.totalPages
    totalParagraphs, \* ProcessedDocument.totalParagraphs
    builtLines,  \* itemsToLines: `lines` as built, before the hyphen rejoin loop
    rj,          \* itemsToLines: the rejoin loop's `lines`, `i` and `rejoined`
    topTexts,    \* HeaderFooterDetector.topTexts (normalized text -> count)
    bottomTexts, \* HeaderFooterDetector.bottomTexts
    pageCount,   \* HeaderFooterDetector.pageCount
    repeatingPatterns,  \* the set getRepeatingPatterns returned
    pdf,           \* processPDF: the pages of the loaded document
    pageDataCache, \* processPDF: { items, pageHeight } of each page read
    filteredPages, \* processPDF: `filtered` of each second-pass iteration
    engineCalls,   \* pdf.getPage calls made so far
    released,      \* the numbers of the pages whose cleanup() was called
    colItems,      \* detectColumns: the items of one page
    columns,       \* detectColumns: the columns returned
    colLines,      \* processPDF column loop: the lines pushed for the page
    ext,           \* extractTextFromPage / performOCR: the call's frame
    ocrJobs,       \* page numbers whose bitmap was given to ocrPool.recognize
    pool,          \* OCRWorkerPool: scheduler, workers, isInitialized
    tess,          \* tesseract.js: schedulers and workers created, terminated
    calls,         \* the calls of the pool's methods and where each one is
    fix,           \* applyWidowOrphanFix: `pages`, `result`, `i` and where the call is
    reader,        \* ClassicMode: the state of the last render and the updates queued
    app,           \* the app slice of the store: status, currentDocumentId, errorMessage
    dispatched     \* the actions dispatched to the app slice so far

segVars == <<paragraphs, seg, iterations, result>>
docVars == <<entry, allLines, numPages, stream, bi, chapters, currentChapter,
             totalPages, totalParagraphs>>
lineVars == <<builtLines, rj>>
hfVars == <<topTexts, bottomTexts, pageCount, repeatingPatterns>>
procVars == <<pdf, pageDataCache, filteredPages, engineCalls, released>>
colVars == <<colItems, columns, colLines>>
ocrVars == <<ext, ocrJobs>>
poolVars == <<pool, tess, calls>>
fixVars == <<fix>>
uiVars == <<reader, app, dispatched>>
vars == <<pc, segVars, docVars, lineVars, hfVars, procVars, colVars, ocrVars, poolVars,
          fixVars, uiVars>>

(***************************************************************************)
(* CONFIGURATION (pdfProcessor.ts lines 13-21)                              *)
(***************************************************************************)
MAX_CHARS_PER_PAGE == 800
MIN_PARAGRAPH_LENGTH == 15
MIN_WIDOW_CHARS == 80
MIN_ORPHAN_CHARS == 80
LINE_Y_TOLERANCE == 4
COLUMN_GAP_THRESHOLD == 100
TEXT_THRESHOLD == 50

(***************************************************************************)
(* Bounds of the model                                                      *)
(***************************************************************************)
MaxParas == 3        \* paragraphs handed to segmentIntoPages
MaxIterations == 4   \* iterations of the oversized-paragraph loop that are followed
MaxStream == 4       \* paragraphs handed to buildChapters on its own
MaxLines == 4        \* lines handed to linesToParagraphs by processPDF
MaxImagePages == 23  \* pages of a document given to processPDFAsImages
MaxBuiltLines == 3   \* lines of a column that enter the hyphen rejoin loop
MaxObserved == 11    \* pages a HeaderFooterDetector on its own is given
MaxDocPages == 3     \* pages of a document given to processPDF
MaxRows == 3         \* rows of fragments of a page given to detectColumns
MaxPageNum == 2      \* page numbers given to extractTextFromPage
MaxCalls == 2        \* calls of the pool's methods, overlapping or not

(***************************************************************************)
(* Characters and strings                                                   *)
(***************************************************************************)
WS == {" ", "\t", "\n"}
Digits == {"0", "1", "2", "3", "4", "5", "6", "7", "8", "9"}
UpperSeq == <<"A", "B", "C", "D", "E", "F", "G", "H", "I", "J", "K", "L", "M",
              "N", "O", "P", "Q", "R", "S", "T", "U", "V", "W", "X", "Y", "Z">>
LowerSeq == <<"a", "b", "c", "d", "e", "f", "g", "h", "i", "j", "k", "l", "m",
              "n", "o", "p", "q", "r", "s", "t", "u", "v", "w", "x", "y", "z">>
Upper == {UpperSeq[k] : k \in 1..26}
RomanLower == {"i", "v", "x", "l", "c", "d", "m"}
RomanUpper == {"I", "V", "X", "L", "C", "D", "M"}
SentencePunct == {".", "!", "?"}
Quotes == {"\"", "'"}

Min(a, b) == IF a < b THEN a ELSE b
Max(a, b) == IF a > b THEN a ELSE b

\* String.prototype.repeat for a one-character string.
Rep(c, n) == [k \in 1..n |-> c]

\* toLowerCase of one character.
ToLowerChar(c) ==
    IF c \in Upper THEN LowerSeq[CHOOSE k \in 1..26 : UpperSeq[k] = c] ELSE c

\* String.prototype.toLowerCase.
ToLower(s) == [k \in 1..Len(s) |-> ToLowerChar(s[k])]

\* The first position in lo..hi whose character is (member) or is not (~member)
\* in cls; 0 when there is none.  Halving keeps the evaluation shallow.
RECURSIVE FirstPos(_, _, _, _, _)
FirstPos(s, lo, hi, cls, member) ==
    IF lo > hi THEN 0
    ELSE IF lo = hi THEN (IF (s[lo] \in cls) = member THEN lo ELSE 0)
    ELSE LET mid == (lo + hi) \div 2
             left == FirstPos(s, lo, mid, cls, member)
         IN  IF left # 0 THEN left ELSE FirstPos(s, mid + 1, hi, cls, member)

\* The last such position in lo..hi; 0 when there is none.
RECURSIVE LastPos(_, _, _, _, _)
LastPos(s, lo, hi, cls, member) ==
    IF lo > hi THEN 0
    ELSE IF lo = hi THEN (IF (s[lo] \in cls) = member THEN lo ELSE 0)
    ELSE LET mid == (lo + hi) \div 2
             right == LastPos(s, mid + 1, hi, cls, member)
         IN  IF right # 0 THEN right ELSE LastPos(s, lo, mid, cls, member)

\* The end of the maximal run of cls-characters that starts at position p
\* (p - 1 when s[p] is not in cls or p is past the end).
RunEnd(s, p, cls) ==
    LET stop == FirstPos(s, p, Len(s), cls, FALSE)
    IN  IF stop = 0 THEN Max(Len(s), p - 1) ELSE stop - 1

\* String.prototype.trim.
Trim(s) ==
    LET a == FirstPos(s, 1, Len(s), WS, FALSE)
        b == LastPos(s, 1, Len(s), WS, FALSE)
    IN  IF a = 0 THEN <<>> ELSE SubSeq(s, a, b)

\* String.prototype.slice(from, to) and slice(from), 0-based, 0 <= from.
Slice(s, from, to) == SubSeq(s, from + 1, Min(to, Len(s)))
SliceFrom(s, from) == SubSeq(s, from + 1, Len(s))

\* String.prototype.lastIndexOf(c, fromIndex), 0-based, -1 when absent.
LastIndexOf(s, c, fromIndex) ==
    LastPos(s, 1, Min(fromIndex + 1, Len(s)), {c}, TRUE) - 1

\* Whether s starts with the word w (w in lower case when ci).
HasPrefix(s, w, ci) ==
    /\ Len(s) >= Len(w)
    /\ \A k \in 1..Len(w) : (IF ci THEN ToLowerChar(s[k]) ELSE s[k]) = w[k]

\* sum(p.length for p in page), and page.join(' ').length.
RECURSIVE SumLen(_)
SumLen(page) == IF page = <<>> THEN 0 ELSE Len(Head(page)) + SumLen(Tail(page))
JoinLen(page) == IF page = <<>> THEN 0 ELSE SumLen(page) + Len(page) - 1

(***************************************************************************)
(* CHAPTER DETECTION: detectChapterTitle (pdfProcessor.ts lines 383-404)    *)
(***************************************************************************)
W_chapter == <<"c", "h", "a", "p", "t", "e", "r">>
W_part == <<"p", "a", "r", "t">>
W_section == <<"s", "e", "c", "t", "i", "o", "n">>
W_book == <<"b", "o", "o", "k">>
W_CHAPTER == <<"C", "H", "A", "P", "T", "E", "R">>
W_PART == <<"P", "A", "R", "T">>
W_appendix == <<"a", "p", "p", "e", "n", "d", "i", "x">>
ExactTitles ==
    { <<"p", "r", "o", "l", "o", "g", "u", "e">>,
      <<"e", "p", "i", "l", "o", "g", "u", "e">>,
      <<"i", "n", "t", "r", "o", "d", "u", "c", "t", "i", "o", "n">>,
      <<"p", "r", "e", "f", "a", "c", "e">>,
      <<"f", "o", "r", "e", "w", "o", "r", "d">>,
      <<"c", "o", "n", "c", "l", "u", "s", "i", "o", "n">> }

\* /^w\s+[cls]/ (with the i flag when ci): the word, white space, one character of cls.
KeywordThen(t, w, ci, cls) ==
    /\ HasPrefix(t, w, ci)
    /\ LET e == RunEnd(t, Len(w) + 1, WS)
       IN  /\ e >= Len(w) + 1
           /\ e + 1 <= Len(t)
           /\ t[e + 1] \in cls

\* /^w\s+/ : the word followed by white space.
KeywordSpace(t, w) ==
    /\ HasPrefix(t, w, FALSE)
    /\ Len(t) > Len(w)
    /\ t[Len(w) + 1] \in WS

\* /^\d+\.\s+[A-Z]/
NumberedTitle(t) ==
    LET d == RunEnd(t, 1, Digits)
        e == RunEnd(t, d + 2, WS)
    IN  /\ d >= 1
        /\ d + 1 <= Len(t)
        /\ t[d + 1] = "."
        /\ e >= d + 2
        /\ e + 1 <= Len(t)
        /\ t[e + 1] \in Upper

\* /^[IVXLCDM]+\.\s+/
RomanTitle(t) ==
    LET r == RunEnd(t, 1, RomanUpper)
    IN  /\ r >= 1
        /\ r + 2 <= Len(t)
        /\ t[r + 1] = "."
        /\ t[r + 2] \in WS

detectChapterTitle(text) ==
    LET t == Trim(text)
    IN  \/ KeywordThen(t, W_chapter, TRUE, Digits)
        \/ KeywordThen(t, W_chapter, TRUE, RomanLower \cup RomanUpper)
        \/ KeywordThen(t, W_part, TRUE, Digits)
        \/ KeywordThen(t, W_part, TRUE, RomanLower \cup RomanUpper)
        \/ KeywordThen(t, W_section, TRUE, Digits)
        \/ KeywordThen(t, W_book, TRUE, Digits)
        \/ KeywordSpace(t, W_CHAPTER)
        \/ KeywordSpace(t, W_PART)
        \/ NumberedTitle(t)
        \/ RomanTitle(t)
        \/ ToLower(t) \in ExactTitles
        \/ HasPrefix(t, W_appendix, TRUE)

(***************************************************************************)
(* PAGINATION (pdfProcessor.ts lines 249-377)                               *)
(***************************************************************************)

\* The ends (0-based, exclusive) of the matches of /[.!?]["']?\s+/g in sub.  A
\* match starts at a punctuation mark followed by white space, or by a quote
\* and white space, and runs to the end of that white space; no match can
\* start inside another, so the scan of matchAll finds them all.
SentenceEnds(sub) ==
    { RunEnd(sub, IF sub[p + 1] \in WS THEN p + 1 ELSE p + 2, WS) :
        p \in { q \in 1..(Len(sub) - 1) :
                  /\ sub[q] \in SentencePunct
                  /\ \/ sub[q + 1] \in WS
                     \/ /\ sub[q + 1] \in Quotes
                        /\ q + 2 <= Len(sub)
                        /\ sub[q + 2] \in WS } }

\* splitAtSentenceBoundary: <<chunk, rest>>.
splitAtSentenceBoundary(text, maxChars) ==
    LET sub == Slice(text, 0, maxChars + 50)
        ends == { e \in SentenceEnds(sub) : e <= maxChars }
        lastSpace == LastIndexOf(text, " ", maxChars)
    IN  IF ends # {}
        THEN LET end == CHOOSE e \in ends : \A f \in ends : f <= e
             IN  <<Trim(Slice(text, 0, end)), Trim(SliceFrom(text, end))>>
        ELSE IF lastSpace * 10 > maxChars * 3
        THEN <<Trim(Slice(text, 0, lastSpace)), Trim(SliceFrom(text, lastSpace))>>
        ELSE <<Trim(Slice(text, 0, maxChars)), Trim(SliceFrom(text, maxChars))>>

\* The locals of segmentIntoPages at the start of its for loop.
SegStart ==
    [pages |-> <<>>, currentPage |-> <<>>, currentCharCount |-> 0,
     pi |-> 0, remaining |-> <<>>, inWhile |-> FALSE]

flushPage(st) ==
    IF Len(st.currentPage) > 0
    THEN [st EXCEPT !.pages = Append(@, st.currentPage),
                    !.currentPage = <<>>,
                    !.currentCharCount = 0]
    ELSE st

\* Overflows with the paragraph's own length left out of the test.
OverflowsIgnoringPara(st, para) ==
    Len(st.currentPage) > 0 /\ st.currentCharCount > MAX_CHARS_PER_PAGE

\* "Would this paragraph overflow the current page?"
Overflows(st, para) ==
    Len(st.currentPage) > 0 /\ st.currentCharCount + Len(para) > MAX_CHARS_PER_PAGE

\* One iteration of the for loop up to the oversized-paragraph loop: the
\* overflow flush, then either the push of an ordinary paragraph or the entry
\* into the while loop.
SegForStep(st, paras) ==
    LET para == paras[st.pi + 1]
        st1 == IF Overflows(st, para) THEN flushPage(st) ELSE st
    IN  IF Len(para) > MAX_CHARS_PER_PAGE
        THEN [st1 EXCEPT !.remaining = para, !.inWhile = TRUE]
        ELSE [st1 EXCEPT !.currentPage = Append(@, para),
                         !.currentCharCount = @ + Len(para),
                         !.pi = @ + 1]

\* The body of the while loop, once.
SegWhileBody(st) ==
    LET available == MAX_CHARS_PER_PAGE - st.currentCharCount
    IN  IF Len(st.remaining) <= available
        THEN [st EXCEPT !.currentPage = Append(@, st.remaining),
                        !.currentCharCount = @ + Len(st.remaining),
                        !.remaining = <<>>]
        ELSE IF available > MIN_ORPHAN_CHARS
        THEN LET cr == splitAtSentenceBoundary(st.remaining, available)
             IN  IF Len(cr[1]) > 0
                 THEN [flushPage([st EXCEPT !.currentPage = Append(@, cr[1])])
                          EXCEPT !.remaining = cr[2]]
                 ELSE flushPage(st)
        ELSE LET st1 == flushPage(st)
                 cr == splitAtSentenceBoundary(st1.remaining, MAX_CHARS_PER_PAGE)
             IN  [flushPage([st1 EXCEPT !.currentPage = Append(@, cr[1]),
                                        !.currentCharCount = Len(cr[1])])
                     EXCEPT !.remaining = cr[2]]

\* One iteration of the while loop, and the loop's exit when nothing remains.
SegWhileStep(st) ==
    LET st1 == SegWhileBody(st)
    IN  IF Len(st1.remaining) > 0
        THEN st1
        ELSE [st1 EXCEPT !.inWhile = FALSE, !.pi = @ + 1]

\* Below115 that lets every length pass.
Below115Any(x) == TRUE

\* x < MAX_CHARS_PER_PAGE * 1.15 for an integer x.  (800 * 1.15 is
\* 919.9999999999999 in IEEE doubles: the same integers pass.)
Below115(x) == x * 100 < MAX_CHARS_PER_PAGE * 115

\* x < MAX_CHARS_PER_PAGE * 1.1 for an integer x.  800 * 1.1 is
\* 880.0000000000001 in IEEE doubles, so 880 itself passes.
Below110(x) == x * 100 <= MAX_CHARS_PER_PAGE * 110

\* The widow branch of applyWidowOrphanFix at index i (0-based) merges.
\* WidowMerges with the widow branch never taken.
WidowNeverMerges(res, i) == FALSE

WidowMerges(res, i) ==
    /\ i = Len(res) - 1
    /\ JoinLen(res[i + 1]) < MIN_WIDOW_CHARS
    /\ i > 0
    /\ Below115(JoinLen(res[i]) + JoinLen(res[i + 1]))

\* OrphanMoves without the test for a chapter title.
OrphanMovesTitles(res, i) ==
    /\ i > 0
    /\ Len(res[i + 1]) > 0
    /\ Len(res[i + 1][1]) < MIN_ORPHAN_CHARS
    /\ Below110(JoinLen(res[i]) + Len(res[i + 1][1]))

\* The orphan branch at index i moves the page's first paragraph back.
OrphanMoves(res, i) ==
    /\ i > 0
    /\ Len(res[i + 1]) > 0
    /\ Len(res[i + 1][1]) < MIN_ORPHAN_CHARS
    /\ ~detectChapterTitle(res[i + 1][1])
    /\ Below110(JoinLen(res[i]) + Len(res[i + 1][1]))

\* Splice1 that removes the page before index i.
SplicePrevious(res, i) == SubSeq(res, 1, i - 1) \o SubSeq(res, i + 1, Len(res))

\* result.splice(i, 1), i 0-based.
Splice1(res, i) == SubSeq(res, 1, i) \o SubSeq(res, i + 2, Len(res))

\* The for loop of applyWidowOrphanFix from index i on.
RECURSIVE WidowOrphanLoop(_, _)
WidowOrphanLoop(res, i) ==
    IF i >= Len(res) THEN res
    ELSE IF WidowMerges(res, i)
    THEN Splice1([res EXCEPT ![i] = @ \o res[i + 1]], i)
    ELSE IF OrphanMoves(res, i)
    THEN LET moved == [res EXCEPT ![i] = Append(@, res[i + 1][1]),
                                  ![i + 1] = Tail(@)]
         IN  IF Len(moved[i + 1]) = 0
             THEN WidowOrphanLoop(Splice1(moved, i), i)
             ELSE WidowOrphanLoop(moved, i + 1)
    ELSE WidowOrphanLoop(res, i + 1)

\* "Remove any empty pages".
NonBlankPage(p) == Len(p) > 0 /\ \E k \in 1..Len(p) : Len(Trim(p[k])) > 0

applyWidowOrphanFix(pages) ==
    SelectSeq(WidowOrphanLoop(pages, 0), NonBlankPage)

\* segmentIntoPages from the end of its for loop: the last flush and the
\* widow/orphan pass.
SegFinish(st) ==
    LET pages == flushPage(st).pages
    IN  IF Len(pages) > 1 THEN applyWidowOrphanFix(pages) ELSE pages

\* The loops of segmentIntoPages run to their end.
RECURSIVE SegRun(_, _)
SegRun(st, paras) ==
    IF st.inWhile THEN SegRun(SegWhileStep(st), paras)
    ELSE IF st.pi < Len(paras) THEN SegRun(SegForStep(st, paras), paras)
    ELSE st

segmentIntoPages(paras) ==
    IF Len(paras) = 0 THEN << << <<>> >> >>
    ELSE SegFinish(SegRun(SegStart, paras))

(***************************************************************************)
(* The state of the operations that are not running                        *)
(***************************************************************************)
T_Beginning == <<"B", "e", "g", "i", "n", "n", "i", "n", "g">>

\* buildChapters' first `currentChapter`.
FirstChapter == [title |-> T_Beginning, paragraphs |-> <<>>, pages |-> <<>>]

SegIdle ==
    /\ paragraphs = <<>>
    /\ seg = SegStart
    /\ iterations = 0
    /\ result = <<>>

\* The rejoin loop's locals at its start, for the built lines ls.
RejoinStart(ls) == [lines |-> ls, i |-> 0, rejoined |-> <<>>]

LinesIdle ==
    /\ builtLines = <<>>
    /\ rj = RejoinStart(<<>>)

\* new HeaderFooterDetector()
DetectorIdle ==
    /\ topTexts = <<>>
    /\ bottomTexts = <<>>
    /\ pageCount = 0
    /\ repeatingPatterns = {}

\* applyWidowOrphanFix is not running.
FixIdle == fix = [stage |-> "none"]

\* No reader is mounted and the store is not under analysis.
UiIdle ==
    /\ reader = [mounted |-> FALSE]
    /\ app = [mounted |-> FALSE]
    /\ dispatched = <<>>

\* No call of extractTextFromPage.
OcrIdle ==
    /\ ext = [stage |-> "none"]
    /\ ocrJobs = {}

\* new OCRWorkerPool() (part_004 lines 8-10), no method called.  Of the array
\* this.workers the length is held: its elements are read nowhere but in
\* the loop that terminates them all.
PoolStart == [scheduler |-> 0, workers |-> 0, isInitialized |-> FALSE]

PoolIdle ==
    /\ pool = PoolStart
    /\ tess = [schedulers |-> 0, workers |-> 0, terminated |-> 0, typeErrors |-> 0]
    /\ calls = <<>>

ColumnsIdle ==
    /\ colItems = <<>>
    /\ columns = <<>>
    /\ colLines = <<>>

ProcessIdle ==
    /\ pdf = <<>>
    /\ pageDataCache = <<>>
    /\ filteredPages = <<>>
    /\ engineCalls = 0
    /\ released = {}

DocIdle ==
    /\ entry = "none"
    /\ allLines = <<>>
    /\ numPages = 0
    /\ stream = <<>>
    /\ bi = 0
    /\ chapters = <<>>
    /\ currentChapter = FirstChapter
    /\ totalPages = 0
    /\ totalParagraphs = 0

(***************************************************************************)
(* segmentIntoPages, step by step, on paragraph lists drawn from a pool     *)
(***************************************************************************)
T_Chapter1 == <<"C", "h", "a", "p", "t", "e", "r", " ", "1">>

ParaPool ==
    { Rep("a", 50),                                        \* shorter than the widow/orphan minimum
      Rep("b", 400),
      Rep("c", 790),
      T_Chapter1,                                          \* a short chapter-title paragraph
      Rep("d", 1700),                                      \* no sentence end, no space
      Rep("e", 500) \o <<".", " ">> \o Rep("f", 500),      \* a sentence end within the budget
      Rep("g", 700) \o <<" ">> \o Rep("h", 300),           \* a space within the budget
      Rep("i", 100) \o <<" ">> \o Rep("j", 760),           \* only an early space
      Rep(" ", 300) \o Rep("k", 600) }                     \* leading white space

\* Two pages of one short paragraph each, after full pages.
ParaExample == <<Rep("c", 790), Rep("a", 50), Rep("c", 790), Rep("a", 50)>>

ParaLists == {ParaExample} \cup UNION { [1..n -> ParaPool] : n \in 0..MaxParas }

SegInit ==
    /\ pc = "seg"
    /\ paragraphs \in ParaLists
    /\ seg = SegStart
    /\ iterations = 0
    /\ result = <<>>
    /\ DocIdle
    /\ LinesIdle
    /\ DetectorIdle
    /\ FixIdle
    /\ UiIdle
    /\ OcrIdle
    /\ PoolIdle
    /\ ColumnsIdle
    /\ ProcessIdle

\* if (paragraphs.length === 0) return [['']]
SegEmpty ==
    /\ pc = "seg"
    /\ Len(paragraphs) = 0
    /\ result' = segmentIntoPages(paragraphs)
    /\ pc' = "segdone"
    /\ UNCHANGED <<uiVars, fixVars, ocrVars, poolVars, colVars, procVars, paragraphs, seg, iterations>>
    /\ UNCHANGED <<uiVars, fixVars, ocrVars, poolVars, colVars, procVars, docVars, lineVars, hfVars>>

SegPara ==
    /\ pc = "seg"
    /\ ~seg.inWhile
    /\ seg.pi < Len(paragraphs)
    /\ seg' = SegForStep(seg, paragraphs)
    /\ UNCHANGED <<uiVars, fixVars, ocrVars, poolVars, colVars, procVars, pc, paragraphs, iterations, result>>
    /\ UNCHANGED <<uiVars, fixVars, ocrVars, poolVars, colVars, procVars, docVars, lineVars, hfVars>>

SegSplit ==
    /\ pc = "seg"
    /\ seg.inWhile
    /\ iterations < MaxIterations
    /\ seg' = SegWhileStep(seg)
    /\ iterations' = IF seg'.inWhile THEN iterations + 1 ELSE 0
    /\ UNCHANGED <<uiVars, fixVars, ocrVars, poolVars, colVars, procVars, pc, paragraphs, result>>
    /\ UNCHANGED <<uiVars, fixVars, ocrVars, poolVars, colVars, procVars, docVars, lineVars, hfVars>>

SegReturn ==
    /\ pc = "seg"
    /\ Len(paragraphs) > 0
    /\ ~seg.inWhile
    /\ seg.pi = Len(paragraphs)
    /\ seg' = flushPage(seg)
    /\ result' = SegFinish(seg)
    /\ pc' = "segdone"
    /\ UNCHANGED <<uiVars, fixVars, ocrVars, poolVars, colVars, procVars, paragraphs, iterations>>
    /\ UNCHANGED <<uiVars, fixVars, ocrVars, poolVars, colVars, procVars, docVars, lineVars, hfVars>>

SegNext == SegEmpty \/ SegPara \/ SegSplit \/ SegReturn

SpecPages == SegInit /\ [][SegNext]_vars

(***************************************************************************)
(* Page numbers and PARAGRAPH BUILDING (pdfProcessor.ts lines 57-61,        *)
(* 202-243)                                                                 *)
(***************************************************************************)
\* The hyphen, the en dash and the em dash (each one character).
Dashes == {"-", "en-dash", "em-dash"}
W_page == <<"p", "a", "g", "e">>

\* /^\d{1,4}$/
BareNumber(t) == Len(t) \in 1..4 /\ \A k \in 1..Len(t) : t[k] \in Digits

\* /^[-–—]\s*\d{1,4}\s*[-–—]$/
DashedNumber(t) ==
    /\ Len(t) >= 3
    /\ t[1] \in Dashes
    /\ LET a == RunEnd(t, 2, WS)
           d == RunEnd(t, a + 1, Digits)
           b == RunEnd(t, d + 1, WS)
       IN  /\ d - a \in 1..4
           /\ b + 1 = Len(t)
           /\ t[Len(t)] \in Dashes

\* /^\d{1,4}\s*of\s*\d{1,4}$/i
NumberOfNumber(t) ==
    LET d1 == RunEnd(t, 1, Digits)
        a == RunEnd(t, d1 + 1, WS)
        b == RunEnd(t, a + 3, WS)
        d2 == RunEnd(t, b + 1, Digits)
    IN  /\ d1 \in 1..4
        /\ a + 2 <= Len(t)
        /\ ToLowerChar(t[a + 1]) = "o"
        /\ ToLowerChar(t[a + 2]) = "f"
        /\ d2 - b \in 1..4
        /\ d2 = Len(t)

isPageNumber(text) ==
    LET trimmed == Trim(text)
    IN  \/ BareNumber(trimmed)
        \/ DashedNumber(trimmed)
        \/ KeywordThen(trimmed, W_page, TRUE, Digits)
        \/ NumberOfNumber(trimmed)

\* /[.!?:]\s*$/.test(current)
PrevEndsWithPeriod(current) ==
    LET e == LastPos(current, 1, Len(current), WS, FALSE)
    IN  e # 0 /\ current[e] \in {".", "!", "?", ":"}

\* /^[A-Z"'"'(]/.test(trimmed)
StartsUppercase(trimmed) ==
    Len(trimmed) > 0 /\ trimmed[1] \in (Upper \cup Quotes \cup {"("})

\* current.split('\n').pop()?.length || 0
PrevLineShort(current) ==
    Len(current) - LastPos(current, 1, Len(current), {"\n"}, TRUE)

\* LongEnough that lets every paragraph pass.
LongEnoughAny(p) == TRUE

\* The paragraphs that pass the final length filter.
LongEnough(p) == Len(p) >= MIN_PARAGRAPH_LENGTH

\* The for loop of linesToParagraphs from line k on, and what follows it.
RECURSIVE LinesLoop(_, _, _, _)
LinesLoop(lines, k, current, paras) ==
    IF k > Len(lines)
    THEN SelectSeq(IF Trim(current) # <<>> THEN Append(paras, Trim(current)) ELSE paras,
                   LongEnough)
    ELSE LET trimmed == Trim(lines[k])
         IN  IF trimmed = <<>>
             THEN IF Trim(current) # <<>>
                  THEN LinesLoop(lines, k + 1, <<>>, Append(paras, Trim(current)))
                  ELSE LinesLoop(lines, k + 1, current, paras)
             ELSE IF isPageNumber(trimmed)
             THEN LinesLoop(lines, k + 1, current, paras)
             ELSE IF /\ current # <<>>
                     /\ PrevEndsWithPeriod(current)
                     /\ StartsUppercase(trimmed)
                     /\ PrevLineShort(current) < 70
             THEN LinesLoop(lines, k + 1, trimmed, Append(paras, Trim(current)))
             ELSE IF current # <<>>
             THEN LET needsSpace == current[Len(current)] # " " /\ trimmed[1] # " "
                  IN  LinesLoop(lines, k + 1,
                                current \o (IF needsSpace THEN <<" ">> ELSE <<>>) \o trimmed,
                                paras)
             ELSE LinesLoop(lines, k + 1, trimmed, paras)

linesToParagraphs(lines) ==
    IF Len(lines) = 0 THEN <<>> ELSE LinesLoop(lines, 1, <<>>, <<>>)

(***************************************************************************)
(* buildChapters (pdfProcessor.ts lines 406-440)                            *)
(***************************************************************************)
T_Document == <<"D", "o", "c", "u", "m", "e", "n", "t">>
T_NoReadable ==
    <<"N", "o", " ", "r", "e", "a", "d", "a", "b", "l", "e", " ",
      "c", "o", "n", "t", "e", "n", "t", " ", "f", "o", "u", "n", "d", ".">>

Placeholder ==
    [title |-> T_Document, paragraphs |-> <<T_NoReadable>>,
     pages |-> << <<T_NoReadable>> >>]

\* currentChapter with its pages computed, as it is when it is pushed.
Paginated(cur) == [cur EXCEPT !.pages = segmentIntoPages(cur.paragraphs)]

\* CloseChapter that pushes the open chapter whether or not it has paragraphs.
CloseChapterAlways(chs, cur) == Append(chs, Paginated(cur))

\* if (currentChapter.paragraphs.length > 0) { paginate it; chapters.push(it) }
CloseChapter(chs, cur) ==
    IF Len(cur.paragraphs) > 0 THEN Append(chs, Paginated(cur)) ELSE chs

\* WithPlaceholder that puts the placeholder after the chapters in every case.
WithPlaceholderAlways(chs) == Append(chs, Placeholder)

\* if (chapters.length === 0) chapters.push(placeholder)
WithPlaceholder(chs) == IF Len(chs) = 0 THEN <<Placeholder>> ELSE chs

\* OpenChapter that keeps the title paragraph as the chapter's first paragraph.
OpenChapterKeepingTitle(para) ==
    [title |-> Slice(para, 0, 80), paragraphs |-> <<para>>, pages |-> <<>>]

\* The chapter a title paragraph opens.
OpenChapter(para) == [title |-> Slice(para, 0, 80), paragraphs |-> <<>>, pages |-> <<>>]

ChapterOpen ==
    /\ pc = "chapters"
    /\ bi < Len(stream)
    /\ detectChapterTitle(stream[bi + 1])
    /\ chapters' = CloseChapter(chapters, currentChapter)
    /\ currentChapter' = OpenChapter(stream[bi + 1])
    /\ bi' = bi + 1
    /\ UNCHANGED <<uiVars, fixVars, ocrVars, poolVars, colVars, procVars, pc, hfVars, lineVars, segVars, entry, allLines, numPages, stream,
                   totalPages, totalParagraphs>>

ChapterAppend ==
    /\ pc = "chapters"
    /\ bi < Len(stream)
    /\ ~detectChapterTitle(stream[bi + 1])
    /\ currentChapter' =
          [currentChapter EXCEPT !.paragraphs = Append(@, stream[bi + 1])]
    /\ bi' = bi + 1
    /\ UNCHANGED <<uiVars, fixVars, ocrVars, poolVars, colVars, procVars, pc, hfVars, lineVars, segVars, entry, allLines, numPages, stream, chapters,
                   totalPages, totalParagraphs>>

ChaptersReturn ==
    /\ pc = "chapters"
    /\ bi = Len(stream)
    /\ chapters' = WithPlaceholder(CloseChapter(chapters, currentChapter))
    /\ currentChapter' =
          IF Len(currentChapter.paragraphs) > 0
          THEN Paginated(currentChapter) ELSE currentChapter
    /\ pc' = "built"
    /\ UNCHANGED <<uiVars, fixVars, ocrVars, poolVars, colVars, procVars, hfVars, lineVars, segVars, entry, allLines, numPages, stream, bi,
                   totalPages, totalParagraphs>>

(***************************************************************************)
(* buildChapters on its own, on paragraph streams drawn from a pool         *)
(***************************************************************************)
P_Intro == <<"I", "n", "t", "r", "o", " ", "t", "e", "x", "t", ".">>
P_Chapter2 == <<"C", "h", "a", "p", "t", "e", "r", " ", "2">>
P_BodyOne == <<"B", "o", "d", "y", " ", "o", "n", "e", ".">>
P_BodyTwo == <<"B", "o", "d", "y", " ", "t", "w", "o", ".">>
\* A title paragraph longer than 80 characters.
P_LongTitle == <<"P", "a", "r", "t", " ", "I", "V", " ">> \o Rep("z", 90)

StreamPool == {P_Intro, T_Chapter1, P_BodyOne, P_Chapter2, P_BodyTwo, P_LongTitle}

\* The stream of the specification's chapter-split scenario.
StreamExample == <<P_Intro, T_Chapter1, P_BodyOne, P_Chapter2, P_BodyTwo>>

StreamLists == {StreamExample} \cup UNION { [1..n -> StreamPool] : n \in 0..MaxStream }

ChaptersInit ==
    /\ pc = "chapters"
    /\ SegIdle
    /\ LinesIdle
    /\ DetectorIdle
    /\ FixIdle
    /\ UiIdle
    /\ OcrIdle
    /\ PoolIdle
    /\ ColumnsIdle
    /\ ProcessIdle
    /\ entry = "none"
    /\ allLines = <<>>
    /\ numPages = 0
    /\ stream \in StreamLists
    /\ bi = 0
    /\ chapters = <<>>
    /\ currentChapter = FirstChapter
    /\ totalPages = 0
    /\ totalParagraphs = 0

ChaptersNext == ChapterOpen \/ ChapterAppend \/ ChaptersReturn

SpecChapters == ChaptersInit /\ [][ChaptersNext]_vars

(***************************************************************************)
(* processPDF from its line list on (pdfProcessor.ts lines 584-596) and     *)
(* processPDFAsImages (unnamed/part_002 lines 99-183)                       *)
(***************************************************************************)
DigitSeq == <<"0", "1", "2", "3", "4", "5", "6", "7", "8", "9">>

\* `${n}` for 0 <= n < 100.
Decimal(n) ==
    IF n < 10 THEN <<DigitSeq[n + 1]>>
    ELSE <<DigitSeq[(n \div 10) + 1], DigitSeq[(n % 10) + 1]>>

W_Section == <<"S", "e", "c", "t", "i", "o", "n", " ">>
\* docTitle: the metadata title or the file name (opaque here).
T_DocTitle == <<"d", "o", "c", "T", "i", "t", "l", "e">>
\* `__IMAGE__${img.dataUrl}`: the data URL of page n stands as the page number.
ImageString(n) == <<"_", "_", "I", "M", "A", "G", "E", "_", "_">> \o Decimal(n)
\* `[Page ${n}]`
PageLabel(n) == <<"[", "P", "a", "g", "e", " ">> \o Decimal(n) \o <<"]">>

\* The chapter of the rendered pages start+1..end (start, end 0-based slice bounds).
ImageChapter(title, start, end) ==
    [title |-> title,
     paragraphs |-> [k \in 1..(end - start) |-> PageLabel(start + k)],
     pages |-> [k \in 1..(end - start) |-> <<ImageString(start + k)>>]]

\* "Group pages into chapters": one chapter up to 12 pages, else one per 10 pages.
ImageChapters(n) ==
    IF n <= 12
    THEN <<ImageChapter(T_DocTitle, 0, n)>>
    ELSE [c \in 1..((n + 9) \div 10) |->
            ImageChapter(W_Section \o Decimal(c), (c - 1) * 10, Min(c * 10, n))]

\* chapters.reduce((sum, ch) => sum + ch.pages.length, 0)
RECURSIVE ReducePages(_)
ReducePages(chs) ==
    IF chs = <<>> THEN 0 ELSE Len(Head(chs).pages) + ReducePages(Tail(chs))

\* chapters.reduce((sum, ch) => sum + ch.paragraphs.length, 0)
RECURSIVE ReduceParagraphs(_)
ReduceParagraphs(chs) ==
    IF chs = <<>> THEN 0 ELSE Len(Head(chs).paragraphs) + ReduceParagraphs(Tail(chs))

\* The totals of processPDFAsImages with the chapter count in place of numPages.
ImageTotalChapters(n) == Len(ImageChapters(n))

\* totalPages: numPages, totalParagraphs: numPages
ImageTotal(n) == n

L_Blank == <<>>
L_Number == <<"7">>
L_Title == T_Chapter1 \o <<":", " ", "I", "n", "t", "r", "o", ".">>
L_Sentence == <<"I", "t", " ", "w", "a", "s", " ", "a", " ", "d", "a", "r", "k", " ",
                "n", "i", "g", "h", "t", ".">>
L_Long == Rep("x", 600) \o <<".">>

LinePool == {L_Blank, L_Number, L_Title, P_BodyOne, L_Sentence, L_Long}

\* The lines of the pages of a document: lines and page-boundary markers, with
\* the marker of the last page at the end; no line at all for a document
\* without pages.
LineLists ==
    {<<>>} \cup { Append(l, L_Blank) :
                    l \in UNION { [1..n -> LinePool] : n \in 0..MaxLines } }

DocInit ==
    /\ SegIdle
    /\ LinesIdle
    /\ DetectorIdle
    /\ FixIdle
    /\ UiIdle
    /\ OcrIdle
    /\ PoolIdle
    /\ ColumnsIdle
    /\ ProcessIdle
    /\ stream = <<>>
    /\ bi = 0
    /\ chapters = <<>>
    /\ currentChapter = FirstChapter
    /\ totalPages = 0
    /\ totalParagraphs = 0
    /\ \/ /\ entry = "text"
          /\ pc = "lines"
          /\ allLines \in LineLists
          /\ numPages = 0
       \/ /\ entry = "images"
          /\ pc = "render"
          /\ allLines = <<>>
          /\ numPages \in 0..MaxImagePages

\* const paragraphs = linesToParagraphs(allLines)
DocParagraphs ==
    /\ pc = "lines"
    /\ stream' = linesToParagraphs(allLines)
    /\ pc' = "chapters"
    /\ UNCHANGED <<uiVars, fixVars, ocrVars, poolVars, colVars, procVars, hfVars, lineVars, segVars, entry, allLines, numPages, bi, chapters,
                   currentChapter, totalPages, totalParagraphs>>

\* processPDF's totals and return.
DocReturn ==
    /\ pc = "built"
    /\ totalPages' = ReducePages(chapters)
    /\ totalParagraphs' = ReduceParagraphs(chapters)
    /\ pc' = "done"
    /\ UNCHANGED <<uiVars, fixVars, ocrVars, poolVars, colVars, procVars, hfVars, lineVars, segVars, entry, allLines, numPages, stream, bi, chapters,
                   currentChapter>>

\* processPDFAsImages once every page is fetched, rendered and cleaned up
\* (part_002 lines 121-131): chapters, totals, return.
ImagesReturn ==
    /\ pc = "render"
    /\ engineCalls' = numPages
    /\ released' = 1..numPages
    /\ chapters' = ImageChapters(numPages)
    /\ totalPages' = ImageTotal(numPages)
    /\ totalParagraphs' = ImageTotal(numPages)
    /\ pc' = "done"
    /\ UNCHANGED <<uiVars, fixVars, ocrVars, poolVars, colVars, pdf, pageDataCache, filteredPages, hfVars, lineVars, segVars,
                   entry, allLines, numPages, stream, bi, currentChapter>>

DocNext ==
    DocParagraphs \/ ChapterOpen \/ ChapterAppend \/ ChaptersReturn \/ DocReturn
        \/ ImagesReturn

SpecDoc == DocInit /\ [][DocNext]_vars

(***************************************************************************)
(* itemsToLines: "Rejoin hyphenated words across lines" (pdfProcessor.ts    *)
(* lines 134-155)                                                           *)
(***************************************************************************)
\* String.prototype.split(/\s+/)
RECURSIVE SplitWs(_)
SplitWs(s) ==
    IF s = <<>> THEN << <<>> >>
    ELSE LET w == FirstPos(s, 1, Len(s), WS, TRUE)
         IN  IF w = 0 THEN <<s>>
             ELSE <<SubSeq(s, 1, w - 1)>>
                    \o SplitWs(SubSeq(s, RunEnd(s, w, WS) + 1, Len(s)))

\* Array.prototype.join(' ')
RECURSIVE JoinSp(_)
JoinSp(words) ==
    IF words = <<>> THEN <<>>
    ELSE IF Len(words) = 1 THEN words[1]
    ELSE words[1] \o <<" ">> \o JoinSp(Tail(words))

\* line.endsWith('-')
EndsWithHyphen(line) == Len(line) > 0 /\ line[Len(line)] = "-"

\* JoinedLine that leaves the hyphen in place.
JoinedLineKeepingHyphen(line, firstWord) == line \o firstWord

\* const joined = line.slice(0, -1) + firstWord
JoinedLine(line, firstWord) == Slice(line, 0, Len(line) - 1) \o firstWord

\* RejoinHyphen that skips the next line whatever is left of it.
RejoinHyphenDroppingRest(st, line, nextLine) ==
    [lines |-> st.lines, i |-> st.i + 2,
     rejoined |-> Append(st.rejoined, JoinedLine(line, Head(SplitWs(nextLine))))]

\* The branch of the loop for a hyphen-ended line with a successor.
RejoinHyphen(st, line, nextLine) ==
    LET nextWords == Tail(SplitWs(nextLine))     \* after nextWords.shift()
        firstWord == Head(SplitWs(nextLine))
    IN  [lines |-> IF Len(nextWords) > 0
                   THEN [st.lines EXCEPT ![st.i + 2] = JoinSp(nextWords)]
                   ELSE st.lines,
         i |-> IF Len(nextWords) > 0 THEN st.i + 1 ELSE st.i + 2,
         rejoined |-> Append(st.rejoined, JoinedLine(line, firstWord))]

\* One iteration of the rejoin loop (i is 0-based).
RejoinStep(st) ==
    LET line == st.lines[st.i + 1]
    IN  IF EndsWithHyphen(line) /\ st.i + 1 < Len(st.lines)
        THEN RejoinHyphen(st, line, st.lines[st.i + 2])
        ELSE [st EXCEPT !.rejoined = Append(@, line), !.i = @ + 1]

RECURSIVE RejoinRun(_)
RejoinRun(st) == IF st.i < Len(st.lines) THEN RejoinRun(RejoinStep(st)) ELSE st

\* The rejoin loop as a whole: the lines itemsToLines returns.
RejoinLines(ls) == RejoinRun(RejoinStart(ls)).rejoined

(***************************************************************************)
(* The rejoin loop, step by step, on the built lines of one column          *)
(***************************************************************************)
B_Exam == <<"e", "x", "a", "m", "-">>
B_PleText == <<"p", "l", "e", " ", "t", "e", "x", "t">>
B_Ple == <<"p", "l", "e">>
B_Chain == <<"b", " ", "c", "-">>
B_Plain == <<"p", "l", "a", "i", "n", " ", "l", "i", "n", "e">>
B_Three == <<"o", "n", "e", " ", " ", "t", "w", "o", "\t", "t", "h", "r", "e", "e">>

\* Built lines are trimmed and not empty (pdfProcessor.ts lines 119, 132).
BuiltPool == {B_Exam, B_PleText, B_Ple, B_Chain, B_Plain, B_Three}

BuiltLists == UNION { [1..n -> BuiltPool] : n \in 0..MaxBuiltLines }

LinesInit ==
    /\ pc = "rejoin"
    /\ SegIdle
    /\ DocIdle
    /\ DetectorIdle
    /\ FixIdle
    /\ UiIdle
    /\ OcrIdle
    /\ PoolIdle
    /\ ColumnsIdle
    /\ ProcessIdle
    /\ builtLines \in BuiltLists
    /\ rj = RejoinStart(builtLines)

RejoinIteration ==
    /\ pc = "rejoin"
    /\ rj.i < Len(rj.lines)
    /\ rj' = RejoinStep(rj)
    /\ UNCHANGED <<uiVars, fixVars, ocrVars, poolVars, colVars, procVars, pc, builtLines, segVars, docVars, hfVars>>

RejoinReturn ==
    /\ pc = "rejoin"
    /\ rj.i >= Len(rj.lines)
    /\ pc' = "rejoined"
    /\ UNCHANGED <<uiVars, fixVars, ocrVars, poolVars, colVars, procVars, hfVars, lineVars, segVars, docVars>>

LinesNext == RejoinIteration \/ RejoinReturn

SpecLines == LinesInit /\ [][LinesNext]_vars

(***************************************************************************)
(* Text items and the HeaderFooterDetector (pdfProcessor.ts lines 27-54,    *)
(* 159-196).  Coordinates are integers; HEADER_FOOTER_MARGIN is 0.08, and   *)
(* y / pageHeight against 0.08 and 1 - 0.08 decides as 100 * y against      *)
(* 8 * pageHeight and 92 * pageHeight for them.                             *)
(***************************************************************************)
HEADER_FOOTER_MARGIN_PERCENT == 8

\* A raw item of getTextContent(): item.str, item.transform[0], [4], [5],
\* item.width, item.height (fontName is read nowhere).
RawItem(str, t0, x, y, width, height) ==
    [str |-> str, transform0 |-> t0, x |-> x, y |-> y, width |-> width,
     height |-> height]

\* extractTextItems
extractTextItems(content) ==
    LET kept == SelectSeq(content, LAMBDA it : Len(it.str) > 0 /\ Len(Trim(it.str)) > 0)
    IN  [k \in 1..Len(kept) |->
            [str |-> kept[k].str, x |-> kept[k].x, y |-> kept[k].y,
             width |-> kept[k].width,
             height |-> IF kept[k].height # 0 THEN kept[k].height
                        ELSE IF kept[k].transform0 # 0 THEN kept[k].transform0
                        ELSE 12]]

\* i.y / pageHeight > (1 - HEADER_FOOTER_MARGIN)
InTopZone(item, pageHeight) ==
    item.y * 100 > (100 - HEADER_FOOTER_MARGIN_PERCENT) * pageHeight

\* i.y / pageHeight < HEADER_FOOTER_MARGIN
InBottomZone(item, pageHeight) ==
    item.y * 100 < HEADER_FOOTER_MARGIN_PERCENT * pageHeight

isInHeaderFooterZone(item, pageHeight) ==
    IF pageHeight <= 0 THEN FALSE
    ELSE InBottomZone(item, pageHeight) \/ InTopZone(item, pageHeight)

\* text.replace(/\d+/g, '#')
RECURSIVE ReplaceDigitRuns(_)
ReplaceDigitRuns(text) ==
    LET d == FirstPos(text, 1, Len(text), Digits, TRUE)
    IN  IF d = 0 THEN text
        ELSE SubSeq(text, 1, d - 1) \o <<"#">>
               \o ReplaceDigitRuns(SubSeq(text, RunEnd(text, d, Digits) + 1, Len(text)))

\* text.replace(/\d+/g, '#').trim().toLowerCase()
normalizeForMatch(text) == ToLower(Trim(ReplaceDigitRuns(text)))

\* zone.map(i => i.str).join(' ')
ZoneText(zone) == JoinSp([k \in 1..Len(zone) |-> zone[k].str])

\* map.set(text, (map.get(text) || 0) + 1)
Tally(map, text) ==
    IF text \in DOMAIN map THEN [map EXCEPT ![text] = @ + 1] ELSE map @@ (text :> 1)

\* The table after a page's zone (the items of one zone) has been observed.
TallyZone(map, zone) ==
    IF Len(zone) > 0 /\ Len(normalizeForMatch(ZoneText(zone))) > 2
    THEN Tally(map, normalizeForMatch(ZoneText(zone)))
    ELSE map

\* HeaderFooterDetector.addPage: the tables after the call.
addPageTop(map, items, pageHeight) ==
    IF pageHeight <= 0 THEN map
    ELSE TallyZone(map, SelectSeq(items, LAMBDA i : InTopZone(i, pageHeight)))

addPageBottom(map, items, pageHeight) ==
    IF pageHeight <= 0 THEN map
    ELSE TallyZone(map, SelectSeq(items, LAMBDA i : InBottomZone(i, pageHeight)))

\* MeetsThreshold with the count strictly above 0.3 * pageCount.
MeetsThresholdStrictly(count, n) == count >= 2 /\ count * 10 > 3 * n

\* count >= Math.max(2, pageCount * 0.3), for integers count and n (the product
\* n * 0.3 in IEEE doubles lets pass the same counts as 3 * n / 10).
MeetsThreshold(count, n) == count >= 2 /\ count * 10 >= 3 * n

\* HeaderFooterDetector.getRepeatingPatterns
getRepeatingPatterns(top, bottom, n) ==
    {t \in DOMAIN top : MeetsThreshold(top[t], n)}
        \cup {t \in DOMAIN bottom : MeetsThreshold(bottom[t], n)}

(***************************************************************************)
(* Pages of text items                                                      *)
(***************************************************************************)
S_MyBook == <<"M", "y", " ", "B", "o", "o", "k">>
S_MyBookHash == <<"m", "y", " ", "b", "o", "o", "k", " ", "#">>

IT_Head1 == RawItem(S_MyBook \o <<" ", "1">>, 12, 50, 950, 90, 12)
IT_Head22 == RawItem(S_MyBook \o <<" ", "2", "2">>, 12, 50, 950, 100, 12)
IT_HeadTitle == RawItem(S_MyBook, 12, 50, 950, 70, 12)
IT_HeadNumber == RawItem(<<"3">>, 12, 500, 950, 10, 12)
IT_Foot == RawItem(S_MyBook \o <<" ", "5">>, 12, 50, 30, 90, 12)
IT_Title == RawItem(L_Title, 12, 50, 700, 170, 12)
IT_Body == RawItem(L_Sentence, 12, 50, 500, 200, 12)
IT_Blank == RawItem(<<" ">>, 12, 50, 400, 10, 12)

\* A page of the decoding engine: the items of getTextContent() and the
\* viewport height.
PG_Single1 == [content |-> <<IT_Head1, IT_Title, IT_Body>>, height |-> 1000]
PG_Single22 == [content |-> <<IT_Head22, IT_Body, IT_Blank>>, height |-> 1000]
PG_Split == [content |-> <<IT_HeadTitle, IT_HeadNumber, IT_Body>>, height |-> 1000]
PG_Plain == [content |-> <<IT_Title, IT_Body>>, height |-> 1000]
PG_Footer == [content |-> <<IT_Body, IT_Foot>>, height |-> 1000]
PG_ZeroHeight == [content |-> <<IT_Head1, IT_Body>>, height |-> 0]

PagePool == {PG_Single1, PG_Single22, PG_Split, PG_Plain, PG_Footer, PG_ZeroHeight}

(***************************************************************************)
(* A HeaderFooterDetector on its own: addPage any number of times, then     *)
(* getRepeatingPatterns                                                     *)
(***************************************************************************)
DetectorInit ==
    /\ pc = "observe"
    /\ SegIdle
    /\ DocIdle
    /\ LinesIdle
    /\ DetectorIdle
    /\ FixIdle
    /\ UiIdle
    /\ OcrIdle
    /\ PoolIdle
    /\ ColumnsIdle
    /\ ProcessIdle

DetectorAddPage ==
    /\ pc = "observe"
    /\ pageCount < MaxObserved
    /\ \E page \in {PG_Single1, PG_Plain, PG_Footer, PG_ZeroHeight} :
          /\ topTexts' = addPageTop(topTexts, extractTextItems(page.content), page.height)
          /\ bottomTexts' =
                addPageBottom(bottomTexts, extractTextItems(page.content), page.height)
    /\ pageCount' = pageCount + 1
    /\ UNCHANGED <<uiVars, fixVars, ocrVars, poolVars, colVars, procVars, pc, repeatingPatterns, segVars, docVars, lineVars>>

DetectorResolve ==
    /\ pc = "observe"
    /\ repeatingPatterns' = getRepeatingPatterns(topTexts, bottomTexts, pageCount)
    /\ pc' = "resolved"
    /\ UNCHANGED <<uiVars, fixVars, ocrVars, poolVars, colVars, procVars, topTexts, bottomTexts, pageCount, segVars, docVars, lineVars>>

DetectorNext == DetectorAddPage \/ DetectorResolve

SpecDetector == DetectorInit /\ [][DetectorNext]_vars

(***************************************************************************)
(* detectColumns and the line building of itemsToLines (pdfProcessor.ts     *)
(* lines 63-132)                                                            *)
(***************************************************************************)
\* Math.round(x / 10) * 10
RoundTen(x) == ((x + 5) \div 10) * 10

\* The comparator of both sorts: yDiff when |yDiff| > tol, else a.x - b.x
\* (tol = 0 is `b.y - a.y || a.x - b.x`).
Cmp(a, b, tol) ==
    IF b.y - a.y > tol \/ a.y - b.y > tol THEN b.y - a.y ELSE a.x - b.x

\* Array.prototype.sort is stable; on the inputs of this model the comparator
\* is a consistent order, for which every stable sort gives this result.
InsertSorted(sorted, e, tol) ==
    LET before == {k \in 1..Len(sorted) : Cmp(sorted[k], e, tol) <= 0}
        pos == IF before = {} THEN 0 ELSE CHOOSE k \in before : \A j \in before : j <= k
    IN  SubSeq(sorted, 1, pos) \o <<e>> \o SubSeq(sorted, pos + 1, Len(sorted))

RECURSIVE SortFrom(_, _, _, _)
SortFrom(items, k, sorted, tol) ==
    IF k > Len(items) THEN sorted
    ELSE SortFrom(items, k + 1, InsertSorted(sorted, items[k], tol), tol)

SortItems(items, tol) == SortFrom(items, 1, <<>>, tol)

\* dominantXs: the rounded x starts that at least 3 items share, ascending.
RECURSIVE Ascending(_)
Ascending(S) ==
    IF S = {} THEN <<>>
    ELSE LET lo == CHOOSE x \in S : \A y \in S : x <= y
         IN  <<lo>> \o Ascending(S \ {lo})

dominantXs(items) ==
    Ascending({x \in {RoundTen(items[k].x) : k \in 1..Len(items)} :
                 Cardinality({k \in 1..Len(items) : RoundTen(items[k].x) = x}) >= 3})

detectColumns(items) ==
    IF Len(items) < 4 THEN <<items>>
    ELSE LET dom == dominantXs(items)
             gaps == [k \in 1..(Len(dom) - 1) |-> dom[k + 1] - dom[k]]
         IN  IF Len(dom) >= 2 /\ \E k \in DOMAIN gaps : gaps[k] > COLUMN_GAP_THRESHOLD
             THEN \* midX = dominantXs[0] + gaps[0] / 2, compared twice over
                  LET twiceMidX == 2 * dom[1] + gaps[1]
                  IN  << SortItems(SelectSeq(items, LAMBDA i : 2 * i.x < twiceMidX), 0),
                         SortItems(SelectSeq(items, LAMBDA i : 2 * i.x >= twiceMidX), 0) >>
             ELSE <<items>>

\* if (currentLine.trim()) lines.push(currentLine.trim())
PushTrimmed(lines, currentLine) ==
    IF Len(Trim(currentLine)) > 0 THEN Append(lines, Trim(currentLine)) ELSE lines

\* The state before the line-building loop (lines 109-112).
BuildStart(sorted) ==
    [lines |-> <<>>, currentLine |-> sorted[1].str, lastY |-> sorted[1].y,
     lastEndX |-> sorted[1].x + sorted[1].width]

\* One iteration of the line-building loop (lines 114-130).
BuildStep(st, item) ==
    LET isNewLine == item.y - st.lastY > LINE_Y_TOLERANCE
                        \/ st.lastY - item.y > LINE_Y_TOLERANCE
        gap == item.x - st.lastEndX
        spaced == /\ 10 * gap > 3 * item.height
                  /\ ~(Len(st.currentLine) > 0 /\ st.currentLine[Len(st.currentLine)] = " ")
                  /\ ~(Len(item.str) > 0 /\ item.str[1] = " ")
    IN  [lines |-> IF isNewLine THEN PushTrimmed(st.lines, st.currentLine) ELSE st.lines,
         currentLine |-> IF isNewLine THEN item.str
                         ELSE IF spaced THEN st.currentLine \o <<" ">> \o item.str
                         ELSE st.currentLine \o item.str,
         lastY |-> item.y,
         lastEndX |-> item.x + (IF item.width # 0 THEN item.width ELSE Len(item.str) * 5)]

RECURSIVE BuildFrom(_, _, _)
BuildFrom(sorted, k, st) ==
    IF k > Len(sorted) THEN PushTrimmed(st.lines, st.currentLine)
    ELSE BuildFrom(sorted, k + 1, BuildStep(st, sorted[k]))

itemsToLines(items) ==
    IF Len(items) = 0 THEN <<>>
    ELSE LET sorted == SortItems(items, LINE_Y_TOLERANCE)
         IN  RejoinLines(BuildFrom(sorted, 2, BuildStart(sorted)))

(***************************************************************************)
(* processPDF (pdfProcessor.ts lines 530-597)                               *)
(***************************************************************************)
\* The two filters of the second pass (lines 560-571).
FilterPage(items, pageHeight, patterns) ==
    LET dropped(item) ==
            /\ isInHeaderFooterZone(item, pageHeight)
            /\ \/ normalizeForMatch(item.str) \in patterns
               \/ isPageNumber(item.str)
    IN  SelectSeq(SelectSeq(items, LAMBDA i : ~dropped(i)),
                  LAMBDA i : ~isPageNumber(Trim(i.str)))

\* The lines of every column, in order (lines 574-578).
RECURSIVE ColumnLines(_, _)
ColumnLines(cols, k) ==
    IF k > Len(cols) THEN <<>>
    ELSE itemsToLines(cols[k]) \o ColumnLines(cols, k + 1)

IT_Left1 == RawItem(<<"L", "e", "f", "t", " ", "o", "n", "e", " ", "e", "x", "a", "m", "-">>,
                    0, 50, 800, 0, 0)
IT_Left2 == RawItem(<<"p", "l", "e", " ", "t", "w", "o">>, 12, 52, 700, 40, 12)
IT_Left3 == RawItem(<<"e", "n", "d", "s", ".">>, 12, 48, 600, 30, 12)
IT_Right1 == RawItem(<<"R", "i", "g", "h", "t", " ", "o", "n", "e">>, 12, 300, 800, 60, 12)
IT_Right2 == RawItem(<<"t", "w", "o">>, 12, 300, 700, 20, 12)
IT_Right3 == RawItem(<<"t", "h", "r", "e", "e", ".">>, 12, 325, 702, 40, 12)
IT_Right4 == RawItem(<<"f", "o", "u", "r", ".">>, 12, 301, 600, 40, 12)

PG_TwoColumns ==
    [content |-> <<IT_Left1, IT_Right1, IT_Left2, IT_Right2, IT_Right3, IT_Left3, IT_Right4>>,
     height |-> 1000]

\* The documents: up to MaxDocPages pages of the pool.
Documents == UNION {[1..n -> PagePool \cup {PG_TwoColumns}] : n \in 0..MaxDocPages}

ProcessInit ==
    /\ pc = "first"
    /\ SegIdle
    /\ LinesIdle
    /\ DetectorIdle
    /\ FixIdle
    /\ UiIdle
    /\ OcrIdle
    /\ PoolIdle
    /\ ColumnsIdle
    /\ pdf \in Documents
    /\ pageDataCache = <<>>
    /\ filteredPages = <<>>
    /\ engineCalls = 0
    /\ released = {}
    /\ entry = "text"
    /\ allLines = <<>>
    /\ numPages = 0
    /\ stream = <<>>
    /\ bi = 0
    /\ chapters = <<>>
    /\ currentChapter = FirstChapter
    /\ totalPages = 0
    /\ totalParagraphs = 0

\* An iteration of the first pass in which pdf.getPage or getTextContent
\* rejects: no try encloses the awaits (lines 542-551), processPDF rejects.
FirstPassRejects ==
    /\ pc = "first"
    /\ Len(pageDataCache) < Len(pdf)
    /\ engineCalls' = engineCalls + 1
    /\ pc' = "rejected"
    /\ UNCHANGED <<uiVars, fixVars, ocrVars, poolVars, pdf, pageDataCache, filteredPages, released, hfVars, segVars, docVars, lineVars,
                   colVars>>

\* One iteration of the first pass (lines 542-551).
FirstPass ==
    /\ pc = "first"
    /\ Len(pageDataCache) < Len(pdf)
    /\ LET page == pdf[Len(pageDataCache) + 1]
           items == extractTextItems(page.content)
       IN  /\ topTexts' = addPageTop(topTexts, items, page.height)
           /\ bottomTexts' = addPageBottom(bottomTexts, items, page.height)
           /\ pageCount' = pageCount + 1
           /\ pageDataCache' =
                 Append(pageDataCache, [items |-> items, pageHeight |-> page.height])
    /\ engineCalls' = engineCalls + 1
    /\ UNCHANGED <<uiVars, fixVars, ocrVars, poolVars, colVars, pc, repeatingPatterns, pdf, filteredPages, released, segVars,
                   docVars, lineVars>>

\* const repeatingPatterns = hfDetector.getRepeatingPatterns()
PatternsResolve ==
    /\ pc = "first"
    /\ Len(pageDataCache) = Len(pdf)
    /\ repeatingPatterns' = getRepeatingPatterns(topTexts, bottomTexts, pageCount)
    /\ pc' = IF Len(pageDataCache) = 0 THEN "lines" ELSE "second"
    /\ UNCHANGED <<uiVars, fixVars, ocrVars, poolVars, colVars, topTexts, bottomTexts, pageCount, procVars, segVars, docVars, lineVars>>

\* SecondPassPage reading the cache from its end.
SecondPassPageBackwards(cache, done) == cache[Len(cache) - Len(done)]

\* for (const { items, pageHeight } of pageDataCache): the entry the next
\* iteration reads, `done` being the iterations made.
SecondPassPage(cache, done) == cache[Len(done) + 1]

\* One iteration of the second pass (lines 558-582).
SecondPass ==
    /\ pc = "second"
    /\ Len(filteredPages) < Len(pageDataCache)
    /\ LET data == SecondPassPage(pageDataCache, filteredPages)
           filtered == FilterPage(data.items, data.pageHeight, repeatingPatterns)
       IN  /\ filteredPages' = Append(filteredPages, filtered)
           /\ allLines' = allLines \o ColumnLines(detectColumns(filtered), 1) \o <<L_Blank>>
    /\ pc' = IF Len(filteredPages') = Len(pageDataCache) THEN "lines" ELSE "second"
    /\ UNCHANGED <<uiVars, fixVars, ocrVars, poolVars, colVars, pdf, pageDataCache, engineCalls, released, hfVars, segVars,
                   lineVars, entry,
                   numPages, stream,
                   bi, chapters, currentChapter, totalPages, totalParagraphs>>

ProcessNext ==
    FirstPass \/ FirstPassRejects \/ PatternsResolve \/ SecondPass \/ DocParagraphs \/ ChapterOpen
        \/ ChapterAppend \/ ChaptersReturn \/ DocReturn

SpecProcess == ProcessInit /\ [][ProcessNext]_vars

(***************************************************************************)
(* detectColumns and the column loop of processPDF (lines 573-578) on pages *)
(* of two clusters of fragments: each row holds a left fragment at x = 0,   *)
(* possibly a second left fragment further right, and a right fragment at   *)
(* the right column's start.                                                *)
(***************************************************************************)
TextItem(str, x, y, width, height) ==
    [str |-> str, x |-> x, y |-> y, width |-> width, height |-> height]

\* Where a row's second left fragment starts (0: the row has none).
SecondStarts == {0, 20, 120, 200}

\* Where the right column starts.
RightStarts == {90, 300}

RowY(r) == 900 - 100 * r

LeftFirst(r) == TextItem(<<"A", DigitSeq[r + 1]>>, 0, RowY(r), 15, 12)
LeftSecond(r, x) == TextItem(<<"B", DigitSeq[r + 1]>>, x, RowY(r), 60, 12)
RightFragment(r, x) == TextItem(<<"R", DigitSeq[r + 1]>>, x, RowY(r), 60, 12)

\* The fragments of rows r..n, in row order (the order of the content stream).
RECURSIVE RowItems(_, _, _, _)
RowItems(r, n, second, right) ==
    IF r > n THEN <<>>
    ELSE <<LeftFirst(r)>>
           \o (IF second[r] = 0 THEN <<>> ELSE <<LeftSecond(r, second[r])>>)
           \o <<RightFragment(r, right)>>
           \o RowItems(r + 1, n, second, right)

ClusterPages ==
    {RowItems(1, n, second, right) :
        n \in {MaxRows}, second \in [1..MaxRows -> SecondStarts], right \in RightStarts}

ColumnsInit ==
    /\ pc = "detect"
    /\ SegIdle
    /\ DocIdle
    /\ LinesIdle
    /\ DetectorIdle
    /\ FixIdle
    /\ UiIdle
    /\ OcrIdle
    /\ PoolIdle
    /\ ProcessIdle
    /\ colItems \in ClusterPages
    /\ columns = <<>>
    /\ colLines = <<>>

\* const columns = detectColumns(filtered)
ColumnsDetect ==
    /\ pc = "detect"
    /\ columns' = detectColumns(colItems)
    /\ pc' = "columns"
    /\ UNCHANGED <<uiVars, fixVars, ocrVars, poolVars, colItems, colLines, segVars, docVars, lineVars, hfVars, procVars>>

\* for (const colItems of columns) allLines.push(...itemsToLines(colItems))
ColumnsEmit ==
    /\ pc = "columns"
    /\ colLines' = ColumnLines(columns, 1)
    /\ pc' = "emitted"
    /\ UNCHANGED <<uiVars, fixVars, ocrVars, poolVars, colItems, columns, segVars, docVars, lineVars, hfVars, procVars>>

ColumnsNext == ColumnsDetect \/ ColumnsEmit

SpecColumns == ColumnsInit /\ [][ColumnsNext]_vars

(***************************************************************************)
(* extractTextFromPage and performOCR (pdfProcessor.ts lines 449-524).      *)
(* Rendering, preprocessing and the pool are outside: each await of them    *)
(* resolves or rejects, each call of them returns or throws.                *)
(***************************************************************************)
\* textContent.items.map(item => item.str).join(' ').trim()
PageText(content) == Trim(JoinSp([k \in 1..Len(content) |-> content[k].str]))

\* progressCallback?.(`Page ${pageNum}: ...`)
Progress(e, msg) == [e EXCEPT !.messages = Append(@, [page |-> e.pageNum, msg |-> msg])]

\* OcrRejected with the error thrown on.
OcrRejectedRethrown(e) == [e EXCEPT !.stage = "returned", !.threw = TRUE]

\* The catch block of extractTextFromPage (lines 472-476).
OcrRejected(e) ==
    [Progress(e, "OCR failed, skipping") EXCEPT !.stage = "returned", !.result = <<>>]

\* A step of performOCR that fails: the frame remembers it, the catch
\* block of extractTextFromPage runs.
OcrFails(e) == OcrRejected([e EXCEPT !.failed = TRUE])

\* const text = await ocrPool.recognize(preprocessedImage), being called.
OcrRecognizeCalled(e) == [e EXCEPT !.stage = "recognizing"]

ExtractContents ==
    { <<>>,
      <<IT_Blank>>,
      PG_Single1.content,
      <<RawItem(Rep("x", TEXT_THRESHOLD), 12, 50, 500, 300, 12)>>,
      <<RawItem(Rep("x", TEXT_THRESHOLD + 1), 12, 50, 500, 300, 12)>>,
      <<IT_Title, IT_Body, IT_Title, IT_Body>> }

\* What the OCR engine may recognize.
RecognizedTexts == {<<>>, L_Sentence}

ExtractInit ==
    /\ pc = "extract"
    /\ SegIdle
    /\ DocIdle
    /\ LinesIdle
    /\ DetectorIdle
    /\ FixIdle
    /\ UiIdle
    /\ ProcessIdle
    /\ ColumnsIdle
    /\ PoolIdle
    /\ ocrJobs = {}
    /\ \E content \in ExtractContents, n \in 1..MaxPageNum, init \in BOOLEAN :
          ext = [stage |-> "start", content |-> content, pageNum |-> n,
                 initialized |-> init, text |-> <<>>, result |-> <<>>,
                 failed |-> FALSE, threw |-> FALSE, messages |-> <<>>]

\* extractTextFromPage up to the return of the text layer or the call of
\* performOCR, which runs up to page.render (lines 454-501): getContext
\* returns a context or null.
ExtractBegin ==
    /\ pc = "extract"
    /\ ext.stage = "start"
    /\ LET text == PageText(ext.content)
           e == [ext EXCEPT !.text = text]
       IN  IF Len(text) > TEXT_THRESHOLD
           THEN ext' = [Progress(e, "Text extracted") EXCEPT !.stage = "returned",
                                                             !.result = text]
           ELSE \E context \in {"2d", "null"} :
                  ext' = IF context = "null"
                         THEN OcrFails(Progress(e, "No text layer, performing OCR..."))
                         ELSE [Progress(e, "No text layer, performing OCR...")
                                 EXCEPT !.stage = "render"]
    /\ UNCHANGED <<uiVars, fixVars, pc, ocrJobs, poolVars, segVars, docVars, lineVars, hfVars, procVars,
                   colVars>>

\* await page.render(...).promise, preprocessImage(canvas), and the test of
\* ocrPool.initialized (lines 498-516).
OcrRender ==
    /\ pc = "extract"
    /\ ext.stage = "render"
    /\ \E outcome \in {"rendered", "render rejects", "preprocess throws"} :
          IF outcome # "rendered"
          THEN ext' = OcrFails(IF outcome = "preprocess throws"
                               THEN Progress(ext, "Preprocessing image...") ELSE ext)
          ELSE LET e == Progress(Progress(ext, "Preprocessing image..."), "Running OCR")
               IN  ext' = IF ~e.initialized THEN [e EXCEPT !.stage = "initializing"]
                          ELSE OcrRecognizeCalled(e)
    /\ ocrJobs' = IF ext'.stage = "recognizing" THEN ocrJobs \cup {ext.pageNum} ELSE ocrJobs
    /\ UNCHANGED <<uiVars, fixVars, pc, poolVars, segVars, docVars, lineVars, hfVars, procVars, colVars>>

\* await ocrPool.initialize() settles (line 515).
OcrInitialize ==
    /\ pc = "extract"
    /\ ext.stage = "initializing"
    /\ \E resolves \in BOOLEAN :
          ext' = IF resolves THEN OcrRecognizeCalled([ext EXCEPT !.initialized = TRUE])
                 ELSE OcrFails(ext)
    /\ ocrJobs' = IF ext'.stage = "recognizing" THEN ocrJobs \cup {ext.pageNum} ELSE ocrJobs
    /\ UNCHANGED <<uiVars, fixVars, pc, poolVars, segVars, docVars, lineVars, hfVars, procVars, colVars>>

\* await ocrPool.recognize(preprocessedImage) settles (lines 519-523).
OcrRecognize ==
    /\ pc = "extract"
    /\ ext.stage = "recognizing"
    /\ \/ \E text \in RecognizedTexts :
             ext' = [Progress(ext, "OCR complete") EXCEPT !.stage = "returned",
                                                          !.result = text]
       \/ ext' = OcrFails(ext)
    /\ UNCHANGED <<uiVars, fixVars, pc, ocrJobs, poolVars, segVars, docVars, lineVars, hfVars, procVars,
                   colVars>>

ExtractNext == ExtractBegin \/ OcrRender \/ OcrInitialize \/ OcrRecognize

SpecExtract == ExtractInit /\ [][ExtractNext]_vars

(***************************************************************************)
(* OCRWorkerPool (part_004).  Each call of a method runs up to its next     *)
(* await in one step; between the steps of a call the steps of other calls  *)
(* and the settling of tesseract.js promises interleave.  Schedulers are    *)
(* numbered in the order of their creation, 0 is null; of the workers,      *)
(* tess counts those created and those terminated, and typeErrors counts    *)
(* the TypeErrors thrown for a method called on the null this.scheduler.     *)
(***************************************************************************)
\* Math.min(navigator.hardwareConcurrency || 2, 4), for a host that reports 2
\* or no hardwareConcurrency.
workerCount == 2

\* The pool, tesseract.js and the calls together.
PoolState == [pool |-> pool, tess |-> tess, calls |-> calls]

SetPoolState(st) ==
    /\ pool' = st.pool
    /\ tess' = st.tess
    /\ calls' = st.calls

\* A call of `kind` enters; pending and rejected are those of the
\* workerPromises of its initialize(), on is the scheduler its pending job
\* was given to, log is what the call has done so far.
Called(st, kind) ==
    [st EXCEPT !.calls = Append(@, [kind |-> kind, pc |-> "start", pending |-> 0,
                                    rejected |-> FALSE, on |-> 0, log |-> <<>>])]

Logged(st, c, event) == [st EXCEPT !.calls[c].log = Append(@, event)]

At(st, c, where) == [st EXCEPT !.calls[c].pc = where]

\* initialize() up to `await Promise.all(workerPromises)` (lines 18-54) for
\* call c, which awaits at waitPc; `returned` is the state if the pool is
\* initialized and initialize() returns at once.
BeginInitialize(st, c, waitPc, returned) ==
    IF st.pool.isInitialized THEN returned
    ELSE [st EXCEPT !.pool.scheduler = st.tess.schedulers + 1,
                    !.tess.schedulers = @ + 1,
                    !.calls[c].pc = waitPc,
                    !.calls[c].pending = workerCount,
                    !.calls[c].rejected = FALSE]

\* this.scheduler.addJob('recognize', ...) by call c, which awaits at jobPc;
\* with this.scheduler null the call throws a TypeError, which recognize
\* lets through (lines 72, 78, 84, 88).
Submit(st, c, jobPc) ==
    IF st.pool.scheduler = 0
    THEN [At(Logged(st, c, "error"), c, "rejected") EXCEPT !.tess.typeErrors = @ + 1]
    ELSE [At(Logged(st, c, "submit"), c, jobPc) EXCEPT !.calls[c].on = st.pool.scheduler]

\* terminate() up to `await this.scheduler.terminate()` (lines 103-110) for
\* call c, which awaits at waitPc or goes on at donePc if terminate() returns
\* at once.
BeginTerminate(st, c, waitPc, donePc) ==
    IF ~st.pool.isInitialized THEN At(Logged(st, c, "terminate"), c, donePc)
    ELSE At(st, c, waitPc)

\* Retries when any job of the call failed, whatever the error.
RetriesAlways(where, outcome) == outcome # "text"

\* The catch block of recognize retries (lines 74-78): the first job failed
\* with an Error whose message includes 'terminated'.
Retries(where, outcome) == where = "job1" /\ outcome = "terminated"

PoolInit ==
    /\ pc = "pool"
    /\ SegIdle
    /\ DocIdle
    /\ LinesIdle
    /\ DetectorIdle
    /\ FixIdle
    /\ UiIdle
    /\ ProcessIdle
    /\ ColumnsIdle
    /\ OcrIdle
    /\ PoolIdle

PoolUnchanged ==
    UNCHANGED <<uiVars, fixVars, pc, segVars, docVars, lineVars, hfVars, procVars, colVars, ocrVars>>

\* ocrPool.initialize() is called.
CallInitialize ==
    /\ pc = "pool"
    /\ Len(calls) < MaxCalls
    /\ LET c == Len(calls) + 1
           st == Called(PoolState, "initialize")
       IN  SetPoolState(BeginInitialize(st, c, "awaitAll", At(st, c, "resolved")))
    /\ PoolUnchanged

\* ocrPool.recognize(image) is called (lines 66-72).
CallRecognize ==
    /\ pc = "pool"
    /\ Len(calls) < MaxCalls
    /\ LET c == Len(calls) + 1
           st == Called(PoolState, "recognize")
       IN  SetPoolState(BeginInitialize(st, c, "preInit", Submit(st, c, "job1")))
    /\ PoolUnchanged

\* ocrPool.terminate() is called.
CallTerminate ==
    /\ pc = "pool"
    /\ Len(calls) < MaxCalls
    /\ LET c == Len(calls) + 1
       IN  SetPoolState(BeginTerminate(Called(PoolState, "terminate"), c,
                                       "terminating", "resolved"))
    /\ PoolUnchanged

\* A createWorker() of call c's initialize() resolves (lines 43-47); with
\* this.scheduler null by then, addWorker throws after the push.
WorkerCreated ==
    /\ pc = "pool"
    /\ \E c \in 1..Len(calls) :
          /\ calls[c].pending > 0
          /\ pool' = [pool EXCEPT !.workers = @ + 1]
          /\ tess' = [tess EXCEPT !.workers = @ + 1,
                                  !.typeErrors = IF pool.scheduler = 0 THEN @ + 1 ELSE @]
          /\ calls' = [calls EXCEPT ![c].pending = @ - 1,
                                    ![c].rejected = @ \/ pool.scheduler = 0]
    /\ PoolUnchanged

\* A createWorker() of call c's initialize() rejects (lines 48-51).
WorkerFailed ==
    /\ pc = "pool"
    /\ \E c \in 1..Len(calls) :
          /\ calls[c].pending > 0
          /\ calls' = [calls EXCEPT ![c].pending = @ - 1, ![c].rejected = TRUE]
    /\ UNCHANGED <<uiVars, fixVars, pool, tess>>
    /\ PoolUnchanged

\* await Promise.all(workerPromises) of call c's initialize() settles (lines
\* 54-56), and the call goes on: initialize() returns, recognize() submits
\* its job, or the rejection ends the call.
InitializeSettles ==
    /\ pc = "pool"
    /\ \E c \in 1..Len(calls) :
          /\ calls[c].pc \in {"awaitAll", "preInit", "retryInit"}
          /\ calls[c].rejected \/ calls[c].pending = 0
          /\ LET ready == [PoolState EXCEPT !.pool.isInitialized = TRUE]
             IN  SetPoolState(
                    IF calls[c].rejected THEN At(Logged(PoolState, c, "error"), c, "rejected")
                    ELSE IF calls[c].pc = "awaitAll" THEN At(ready, c, "resolved")
                    ELSE IF calls[c].pc = "preInit" THEN Submit(ready, c, "job1")
                    ELSE Submit(Logged(ready, c, "initialize"), c, "job2"))
    /\ PoolUnchanged

\* The job of call c settles (lines 72-88): its text is returned, or the
\* error is thrown on, or the catch block calls terminate() for the retry.
JobSettles ==
    /\ pc = "pool"
    /\ \E c \in 1..Len(calls), outcome \in {"text", "terminated", "error"} :
          /\ calls[c].pc \in {"job1", "job2"}
          /\ LET st == [PoolState EXCEPT !.calls[c].on = 0]
             IN  SetPoolState(
                    IF outcome = "text" THEN At(st, c, "resolved")
                    ELSE IF Retries(calls[c].pc, outcome)
                    THEN BeginTerminate(Logged(st, c, outcome), c,
                                        "retryTerm", "retryTermDone")
                    ELSE At(Logged(st, c, outcome), c, "rejected"))
    /\ PoolUnchanged

\* The awaits of call c's terminate() settle (lines 110-121): the scheduler
\* and `done` workers of this.workers are terminated (the scheduler's own
\* workers are among them), all of them unless an await rejected and the
\* catch block skipped the rest; the pool's fields are reset.
TerminateSettles ==
    /\ pc = "pool"
    /\ \E c \in 1..Len(calls), done \in 0..pool.workers :
          /\ calls[c].pc \in {"terminating", "retryTerm"}
          /\ LET st == [PoolState EXCEPT !.pool = PoolStart,
                                         !.tess.terminated = @ + done]
             IN  SetPoolState(At(Logged(st, c, "terminate"), c,
                                 IF calls[c].pc = "terminating" THEN "resolved"
                                 ELSE "retryTermDone"))
    /\ PoolUnchanged

\* recognize() goes on after its await of terminate(): await
\* this.initialize(), and the retry if that returns at once (lines 81-84).
RetryInitialize ==
    /\ pc = "pool"
    /\ \E c \in 1..Len(calls) :
          /\ calls[c].pc = "retryTermDone"
          /\ SetPoolState(BeginInitialize(PoolState, c, "retryInit",
                             Submit(Logged(PoolState, c, "initialize"), c, "job2")))
    /\ PoolUnchanged

PoolNext ==
    CallInitialize \/ CallRecognize \/ CallTerminate \/ WorkerCreated \/ WorkerFailed
        \/ InitializeSettles \/ JobSettles \/ TerminateSettles \/ RetryInitialize

SpecPool == PoolInit /\ [][PoolNext]_vars

(***************************************************************************)
(* applyWidowOrphanFix, iteration by iteration (pdfProcessor.ts lines       *)
(* 339-377), on the pages that greedy packing makes of paragraph lists      *)
(***************************************************************************)
MaxFixParas == 4     \* paragraphs packed into the pages given to applyWidowOrphanFix

FixParaPool ==
    { Rep("a", 50), Rep("m", 79), Rep("l", 200), Rep("b", 400), Rep("c", 790),
      T_Chapter1 }

\* Three paragraphs fill a page to the budget, so that its text with the
\* joining spaces is longer than the budget before a short paragraph follows.
FixExample == <<Rep("b", 400), Rep("l", 200), Rep("l", 200), Rep("m", 79), Rep("c", 790)>>

\* A sentence and white space beyond the budget: the splitter makes one
\* short chunk of it and nothing remains.
P_Tail == Rep("n", 60) \o <<".">> \o Rep(" ", 800)

\* A full page, an orphan alone on its page, and a short last chunk: the
\* orphan's page is removed before the widow test of the last page.
FixTailExamples == { <<Rep("c", 790), orphan, P_Tail>> : orphan \in {Rep("a", 50), Rep("m", 79)} }

FixParaLists ==
    {FixExample} \cup FixTailExamples
        \cup UNION { [1..n -> FixParaPool] : n \in 2..MaxFixParas }

\* `pages` of segmentIntoPages after its last flushPage() (line 332).
GreedyPages(paras) == flushPage(SegRun(SegStart, paras)).pages

\* segmentIntoPages calls applyWidowOrphanFix when pages.length > 1 (line 335).
FixInit ==
    /\ pc = "fix"
    /\ \E paras \in FixParaLists :
          /\ Len(GreedyPages(paras)) > 1
          /\ fix = [stage |-> "loop", pages |-> GreedyPages(paras),
                    result |-> GreedyPages(paras), i |-> 0]
    /\ SegIdle
    /\ UiIdle
    /\ DocIdle
    /\ LinesIdle
    /\ DetectorIdle
    /\ ProcessIdle
    /\ ColumnsIdle
    /\ OcrIdle
    /\ PoolIdle

FixUnchanged ==
    UNCHANGED <<uiVars, pc, segVars, docVars, lineVars, hfVars, procVars, colVars, ocrVars,
                poolVars>>

\* An iteration whose widow branch merges the last page and breaks (lines
\* 346-354).
FixWidow ==
    /\ pc = "fix"
    /\ fix.stage = "loop"
    /\ fix.i < Len(fix.result)
    /\ WidowMerges(fix.result, fix.i)
    /\ fix' = [fix EXCEPT !.result = Splice1([@ EXCEPT ![fix.i] = @ \o fix.result[fix.i + 1]],
                                             fix.i),
                          !.stage = "filter"]
    /\ FixUnchanged

\* An iteration whose orphan branch moves the first paragraph back (lines
\* 358-372); an emptied page is spliced out and i stays after i-- and i++.
FixOrphan ==
    /\ pc = "fix"
    /\ fix.stage = "loop"
    /\ fix.i < Len(fix.result)
    /\ ~WidowMerges(fix.result, fix.i)
    /\ OrphanMoves(fix.result, fix.i)
    /\ LET moved == [fix.result EXCEPT ![fix.i] = Append(@, fix.result[fix.i + 1][1]),
                                       ![fix.i + 1] = Tail(@)]
       IN  fix' = IF Len(moved[fix.i + 1]) = 0
                  THEN [fix EXCEPT !.result = Splice1(moved, fix.i)]
                  ELSE [fix EXCEPT !.result = moved, !.i = @ + 1]
    /\ FixUnchanged

\* An iteration in which neither branch changes the pages.
FixSkip ==
    /\ pc = "fix"
    /\ fix.stage = "loop"
    /\ fix.i < Len(fix.result)
    /\ ~WidowMerges(fix.result, fix.i)
    /\ ~OrphanMoves(fix.result, fix.i)
    /\ fix' = [fix EXCEPT !.i = @ + 1]
    /\ FixUnchanged

\* The loop has ended or was left by break: return result.filter(...) (line 376).
FixReturn ==
    /\ pc = "fix"
    /\ \/ fix.stage = "filter"
       \/ fix.stage = "loop" /\ fix.i >= Len(fix.result)
    /\ fix' = [fix EXCEPT !.result = SelectSeq(@, NonBlankPage), !.stage = "returned"]
    /\ FixUnchanged

FixNext == FixWidow \/ FixOrphan \/ FixSkip \/ FixReturn

SpecFix == FixInit /\ [][FixNext]_vars

(***************************************************************************)
(* linesToParagraphs on its own (pdfProcessor.ts lines 202-243), on line    *)
(* lists drawn from a pool with page numbers of every accepted form         *)
(***************************************************************************)
MaxParaLines == 4    \* lines handed to linesToParagraphs on its own

N_Bare == <<"7">>
N_Dashed == <<"-", " ", "8", " ", "-">>
N_Page == <<"P", "a", "g", "e", " ", "9", " ", "n", "e", "x", "t">>
N_Of == <<"7", " ", "o", "f", " ", "9">>
\* Five digits: no page number.
L_FiveDigits == <<"1", "2", "3", "4", "5">>
\* Shorter than MIN_PARAGRAPH_LENGTH, and no start of a sentence.
L_Short == <<"a", "n", "d", " ", "s", "o", " ", "o", "n">>
L_Indented == <<" ", " ">> \o L_Sentence

ParaLinePool ==
    {L_Blank, N_Bare, N_Dashed, N_Page, N_Of, L_FiveDigits, L_Short, L_Sentence,
     L_Indented}

ParaLineLists == UNION { [1..n -> ParaLinePool] : n \in 0..MaxParaLines }

ParagraphsInit ==
    /\ pc = "paragraphs"
    /\ SegIdle
    /\ LinesIdle
    /\ DetectorIdle
    /\ FixIdle
    /\ UiIdle
    /\ ProcessIdle
    /\ ColumnsIdle
    /\ OcrIdle
    /\ PoolIdle
    /\ entry = "none"
    /\ allLines \in ParaLineLists
    /\ numPages = 0
    /\ stream = <<>>
    /\ bi = 0
    /\ chapters = <<>>
    /\ currentChapter = FirstChapter
    /\ totalPages = 0
    /\ totalParagraphs = 0

\* linesToParagraphs(lines) is called and returns.
ParagraphsReturn ==
    /\ pc = "paragraphs"
    /\ stream' = linesToParagraphs(allLines)
    /\ pc' = "paragraphs returned"
    /\ UNCHANGED <<uiVars, fixVars, ocrVars, poolVars, colVars, procVars, hfVars, lineVars, segVars, entry,
                   allLines, numPages, bi, chapters, currentChapter, totalPages,
                   totalParagraphs>>

SpecParagraphs == ParagraphsInit /\ [][ParagraphsReturn]_vars

(***************************************************************************)
(* The app slice of the store (src/store/appSlice.ts).  null is the string  *)
(* "null", which is no payload of the model.                                *)
(***************************************************************************)
MaxDispatched == 3   \* actions dispatched to the app slice

AppStatus == {"idle", "uploading", "processing", "ready", "error"}
DocumentIds == {"doc-1", "doc-2"}
ErrorTexts == {"", "Failed to process PDF"}

initialState == [status |-> "idle", currentDocumentId |-> "null", errorMessage |-> "null"]

\* setStatus that leaves errorMessage as it is.
setStatusOnly(state, payload) == [state EXCEPT !.status = payload]

setStatus(state, payload) ==
    [state EXCEPT !.status = payload,
                  !.errorMessage = IF payload # "error" THEN "null" ELSE @]

setCurrentDocumentId(state, payload) == [state EXCEPT !.currentDocumentId = payload]

setError(state, payload) == [state EXCEPT !.status = "error", !.errorMessage = payload]

resetApp(state) ==
    [state EXCEPT !.status = "idle", !.currentDocumentId = "null", !.errorMessage = "null"]

AppInit ==
    /\ pc = "store"
    /\ app = initialState
    /\ dispatched = <<>>
    /\ reader = [mounted |-> FALSE]
    /\ SegIdle
    /\ DocIdle
    /\ LinesIdle
    /\ DetectorIdle
    /\ FixIdle
    /\ ProcessIdle
    /\ ColumnsIdle
    /\ OcrIdle
    /\ PoolIdle

AppUnchanged ==
    UNCHANGED <<pc, reader, segVars, docVars, lineVars, hfVars, procVars, colVars, ocrVars,
                poolVars, fixVars>>

\* The store handles the action: the reducer of its type makes the next state.
Dispatch(action, next) ==
    /\ pc = "store"
    /\ Len(dispatched) < MaxDispatched
    /\ app' = next
    /\ dispatched' = Append(dispatched, action)
    /\ AppUnchanged

DispatchSetStatus ==
    \E payload \in AppStatus :
        Dispatch([type |-> "setStatus", payload |-> payload], setStatus(app, payload))

DispatchSetCurrentDocumentId ==
    \E payload \in DocumentIds :
        Dispatch([type |-> "setCurrentDocumentId", payload |-> payload],
                 setCurrentDocumentId(app, payload))

DispatchSetError ==
    \E payload \in ErrorTexts :
        Dispatch([type |-> "setError", payload |-> payload], setError(app, payload))

DispatchResetApp == Dispatch([type |-> "resetApp", payload |-> "null"], resetApp(app))

AppNext ==
    DispatchSetStatus \/ DispatchSetCurrentDocumentId \/ DispatchSetError
        \/ DispatchResetApp

SpecApp == AppInit /\ [][AppNext]_vars

(***************************************************************************)
(* The spreads of ClassicMode (src/components/reader/ClassicMode.tsx).      *)
(* reader holds the values of the last render (spreadIndex, isMobile,       *)
(* isAnimating), which the closures of that render read, and the state      *)
(* updates queued since: the updater functions given to setSpreadIndex, in  *)
(* order, and the values set for isAnimating and for the viewport.          *)
(* useIsMobile is not part of the sources at hand: its value is an input    *)
(* that changes between renders.                                            *)
(***************************************************************************)
MaxReaderPages == 4   \* pages of the document (allPages.length)
MaxQueued == 2        \* navigate calls that pass between two renders
MaxBelow == 3         \* how far below 0 the model follows spreadIndex

Directions == {"next", "prev"}

\* spreads.length
SpreadsLength(pages, mobile) == IF mobile THEN pages ELSE (pages + 1) \div 2

isFirst == reader.spreadIndex = 0

isLast == reader.spreadIndex >= SpreadsLength(reader.pages, reader.isMobile) - 1

\* s => dir === 'next' ? s + 1 : s - 1
Updater(dir, s) == IF dir = "next" THEN s + 1 ELSE s - 1

RECURSIVE ApplyUpdaters(_, _)
ApplyUpdaters(s, queue) ==
    IF queue = <<>> THEN s
    ELSE ApplyUpdaters(Updater(Head(queue), s), Tail(queue))

ReaderInit ==
    /\ pc = "reader"
    /\ \E pages \in 1..MaxReaderPages, mobile \in BOOLEAN :
          reader = [mounted |-> TRUE, pages |-> pages, spreadIndex |-> 0,
                    isMobile |-> mobile, isAnimating |-> FALSE,
                    queued |-> <<>>, setAnimating |-> FALSE, setMobile |-> mobile]
    /\ app = [mounted |-> FALSE]
    /\ dispatched = <<>>
    /\ SegIdle
    /\ DocIdle
    /\ LinesIdle
    /\ DetectorIdle
    /\ FixIdle
    /\ ProcessIdle
    /\ ColumnsIdle
    /\ OcrIdle
    /\ PoolIdle

ReaderUnchanged ==
    UNCHANGED <<pc, app, dispatched, segVars, docVars, lineVars, hfVars, procVars, colVars,
                ocrVars, poolVars, fixVars>>

\* navigate(dir), called from a key or a button of the last render.
navigate(dir) ==
    /\ pc = "reader"
    /\ ~reader.isAnimating
    /\ ~(dir = "next" /\ isLast)
    /\ ~(dir = "prev" /\ isFirst)
    /\ Len(reader.queued) < MaxQueued
    /\ ApplyUpdaters(reader.spreadIndex, Append(reader.queued, dir)) >= -MaxBelow
    /\ reader' = [reader EXCEPT !.queued = Append(@, dir), !.setAnimating = TRUE]
    /\ ReaderUnchanged

\* The last frame of a flip: setIsAnimating(false).
FlipEnds ==
    /\ pc = "reader"
    /\ reader.setAnimating
    /\ reader' = [reader EXCEPT !.setAnimating = FALSE]
    /\ ReaderUnchanged

\* The window passes the mobile breakpoint.
ViewportChanges ==
    /\ pc = "reader"
    /\ reader' = [reader EXCEPT !.setMobile = ~@]
    /\ ReaderUnchanged

\* The component renders again with the queued updates applied.
Render ==
    /\ pc = "reader"
    /\ \/ reader.queued # <<>>
       \/ reader.setAnimating # reader.isAnimating
       \/ reader.setMobile # reader.isMobile
    /\ reader' = [reader EXCEPT !.spreadIndex = ApplyUpdaters(@, reader.queued),
                                !.isAnimating = reader.setAnimating,
                                !.isMobile = reader.setMobile,
                                !.queued = <<>>]
    /\ ReaderUnchanged

ReaderNext ==
    \/ \E dir \in Directions : navigate(dir)
    \/ FlipEnds
    \/ ViewportChanges
    \/ Render

SpecReader == ReaderInit /\ [][ReaderNext]_vars

(***************************************************************************)
(* Claims about segmentIntoPages (checked under SpecPages)                  *)
(***************************************************************************)
Range(f) == {f[k] : k \in DOMAIN f}

\* A page that holds a chunk made by the oversized-paragraph splitter: a
\* string that is none of the input paragraphs.
FromSplitter(page) == \E m \in 1..Len(page) : page[m] \notin Range(paragraphs)

\* C2 (as claimed): every page returned by segmentIntoPages has a sum of
\* paragraph lengths of at most MAX_CHARS_PER_PAGE, except the pages produced
\* by the oversized-paragraph splitter.
C2_BudgetExceptSplitter ==
    pc = "segdone" =>
        \A k \in 1..Len(result) :
            SumLen(result[k]) <= MAX_CHARS_PER_PAGE \/ FromSplitter(result[k])

\* C2 (amended): every page of the greedy packing, split chunks included, is
\* within MAX_CHARS_PER_PAGE before the widow/orphan pass; a returned page
\* exceeds MAX_CHARS_PER_PAGE only if the pass changed it, and then its sum
\* of paragraph lengths is below 1.15 * MAX_CHARS_PER_PAGE.
C2_BudgetUnlessMerged ==
    pc = "segdone" =>
        /\ \A k \in 1..Len(seg.pages) : SumLen(seg.pages[k]) <= MAX_CHARS_PER_PAGE
        /\ \A k \in 1..Len(result) :
              \/ SumLen(result[k]) <= MAX_CHARS_PER_PAGE
              \/ /\ result[k] \notin Range(seg.pages)
                 /\ Below115(SumLen(result[k]))

\* Witness of C2: a returned page made of whole paragraphs only that the
\* widow/orphan pass has grown beyond the budget.
C2_Witness ==
    /\ pc = "segdone"
    /\ \E k \in 1..Len(result) :
          /\ SumLen(result[k]) > MAX_CHARS_PER_PAGE
          /\ ~FromSplitter(result[k])

NonTitleIdx ==
    SelectSeq([j \in 1..Len(stream) |-> j], LAMBDA j : ~detectChapterTitle(stream[j]))

\* The position of the last title paragraph before position j (0: none).
TitleBefore(j) ==
    LET ts == {i \in 1..(j - 1) : detectChapterTitle(stream[i])}
    IN  IF ts = {} THEN 0 ELSE CHOOSE i \in ts : \A h \in ts : h <= i

\* The first 80 characters of s.
First80(s) == [k \in 1..(IF Len(s) < 80 THEN Len(s) ELSE 80) |-> s[k]]

\* The title of the chapter that is open at position j of the stream.
TitleAt(j) ==
    IF TitleBefore(j) = 0 THEN T_Beginning ELSE First80(stream[TitleBefore(j)])

\* The paragraph lists of the chapters, one after the other.
RECURSIVE FlatParagraphs(_)
FlatParagraphs(chs) ==
    IF chs = <<>> THEN <<>> ELSE Head(chs).paragraphs \o FlatParagraphs(Tail(chs))

\* The chapter that holds the n-th paragraph of FlatParagraphs(chapters).
ChapterOfNth(n) ==
    CHOOSE c \in 1..Len(chapters) :
        /\ Len(FlatParagraphs(SubSeq(chapters, 1, c - 1))) < n
        /\ n <= Len(FlatParagraphs(SubSeq(chapters, 1, c)))

\* C5: paragraphs before the first title paragraph form the chapter
\* "Beginning"; each title paragraph opens a chapter titled by its first 80
\* characters and is in no paragraph list; each other paragraph is appended,
\* in source order, to the chapter open at its place; a chapter without
\* paragraphs is not emitted; the chapter-split scenario yields exactly
\* Beginning/[Intro text.], Chapter 1/[Body one.], Chapter 2/[Body two.].
C5_ChapterSegmentation ==
    (pc = "built" /\ NonTitleIdx # <<>>) =>
        /\ FlatParagraphs(chapters) =
              [n \in 1..Len(NonTitleIdx) |-> stream[NonTitleIdx[n]]]
        /\ \A c \in 1..Len(chapters) : Len(chapters[c].paragraphs) >= 1
        /\ \A n \in 1..Len(NonTitleIdx) :
              /\ chapters[ChapterOfNth(n)].title = TitleAt(NonTitleIdx[n])
              /\ n > 1 =>
                    ((ChapterOfNth(n) = ChapterOfNth(n - 1))
                        <=> (TitleBefore(NonTitleIdx[n]) = TitleBefore(NonTitleIdx[n - 1])))
        /\ stream = StreamExample =>
              /\ [c \in 1..Len(chapters) |-> chapters[c].title]
                    = <<T_Beginning, T_Chapter1, P_Chapter2>>
              /\ [c \in 1..Len(chapters) |-> chapters[c].paragraphs]
                    = << <<P_Intro>>, <<P_BodyOne>>, <<P_BodyTwo>> >>

\* Witness of C5: buildChapters has returned for the chapter-split scenario.
C5_Witness == pc = "built" /\ stream = StreamExample /\ Len(chapters) = 3

\* C6: when segmentation produces no chapter (an empty stream, or title
\* paragraphs only), buildChapters returns exactly the one chapter "Document"
\* with the paragraph "No readable content found." on one page; in every
\* other case no such chapter is returned.
C6_PlaceholderIffNoChapter ==
    pc = "built" =>
        /\ NonTitleIdx = <<>> =>
              /\ Len(chapters) = 1
              /\ chapters[1].title = T_Document
              /\ chapters[1].paragraphs = <<T_NoReadable>>
              /\ chapters[1].pages = << <<T_NoReadable>> >>
        /\ NonTitleIdx # <<>> =>
              \A c \in 1..Len(chapters) :
                  ~(chapters[c].title = T_Document
                      /\ chapters[c].paragraphs = <<T_NoReadable>>)

\* Witness of C6: a stream of title paragraphs only has given the placeholder.
C6_Witness ==
    /\ pc = "built"
    /\ Len(stream) >= 2
    /\ NonTitleIdx = <<>>
    /\ chapters[1].title = T_Document

(***************************************************************************)
(* Claims about the returned document (checked under SpecDoc)               *)
(***************************************************************************)
\* C1: the document processPDF returns has a non-empty chapter list, every
\* chapter has at least one page, and every page has at least one paragraph
\* that is not blank.
C1_NoEmptyChapterOrPage ==
    (pc = "done" /\ entry = "text") =>
        /\ Len(chapters) >= 1
        /\ \A c \in 1..Len(chapters) :
              /\ Len(chapters[c].pages) >= 1
              /\ \A k \in 1..Len(chapters[c].pages) :
                    \E m \in 1..Len(chapters[c].pages[k]) :
                        Trim(chapters[c].pages[k][m]) # <<>>

\* Witness of C1: processPDF has returned a document with a title-opened
\* chapter and a chapter whose oversized paragraph was split over two pages.
C1_Witness ==
    /\ pc = "done"
    /\ entry = "text"
    /\ \E c \in 1..Len(chapters) : chapters[c].title # T_Beginning
    /\ \E c \in 1..Len(chapters) :
          /\ Len(chapters[c].pages) >= 2
          /\ \E m \in 1..Len(chapters[c].paragraphs) :
                Len(chapters[c].paragraphs[m]) > MAX_CHARS_PER_PAGE

\* C4: in every document returned by processPDF or processPDFAsImages,
\* totalPages is the sum of the chapters' page counts and totalParagraphs the
\* sum of the chapters' paragraph counts.
C4_TotalsAreSums ==
    pc = "done" =>
        /\ totalPages =
              Cardinality({ck \in (1..Len(chapters)) \X (1..MaxImagePages + MaxLines + 1) :
                              ck[2] <= Len(chapters[ck[1]].pages)})
        /\ totalParagraphs =
              Cardinality({ck \in (1..Len(chapters)) \X (1..MaxImagePages + MaxLines + 1) :
                              ck[2] <= Len(chapters[ck[1]].paragraphs)})

\* Witness of C4: processPDFAsImages has returned a document of several chapters.
C4_Witness ==
    /\ pc = "done"
    /\ entry = "images"
    /\ Len(chapters) >= 2
    /\ totalPages > 12

\* The pages of greedy packing (`pages` when the widow/orphan pass starts)
\* end with a page of fewer than MIN_WIDOW_CHARS characters, and the page
\* before it has slack: the two texts together stay below 115% of the budget.
WidowCase ==
    /\ pc = "segdone"
    /\ Len(seg.pages) >= 2
    /\ JoinLen(seg.pages[Len(seg.pages)]) < MIN_WIDOW_CHARS
    /\ Below115(JoinLen(seg.pages[Len(seg.pages) - 1])
                  + JoinLen(seg.pages[Len(seg.pages)]))

\* The last returned page ends with the paragraphs of the last greedy page,
\* after paragraphs of the page before it.
WidowMerged ==
    LET widow == seg.pages[Len(seg.pages)]
        last == result[Len(result)]
    IN  /\ Len(last) > Len(widow)
        /\ SubSeq(last, Len(last) - Len(widow) + 1, Len(last)) = widow
        /\ last[Len(last) - Len(widow)]
              = seg.pages[Len(seg.pages) - 1][Len(seg.pages[Len(seg.pages) - 1])]

LoneOrphanPages ==
    {k \in 2..(Len(seg.pages) - 1) :
        Len(seg.pages[k]) = 1 /\ Len(seg.pages[k][1]) < MIN_ORPHAN_CHARS}

HyphenPair ==
    /\ Len(builtLines) = 2
    /\ EndsWithHyphen(builtLines[1])
    /\ Len(SplitWs(builtLines[2])) >= 2

\* The line without its last character.
WithoutHyphen(line) == [k \in 1..(Len(line) - 1) |-> line[k]]

RECURSIVE Rejoined(_)
Rejoined(ls) ==
    IF Len(ls) = 0 THEN <<>>
    ELSE IF Len(ls) >= 2 /\ EndsWithHyphen(ls[1])
    THEN LET toks == SplitWs(ls[2])
             rest == SubSeq(ls, 3, Len(ls))
         IN  <<WithoutHyphen(ls[1]) \o toks[1]>>
               \o (IF Len(toks) = 1 THEN Rejoined(rest)
                   ELSE Rejoined(<<JoinSp(Tail(toks))>> \o rest))
    ELSE <<ls[1]>> \o Rejoined(Tail(ls))

\* C10: a hyphen-ended line with a successor loses its hyphen and has the
\* successor's first token appended; a successor of that single token does
\* not appear in the output, otherwise the successor's remaining tokens are
\* kept as a separate line directly after the joined one.
C10_HyphenRejoin == pc = "rejoined" => rj.rejoined = Rejoined(builtLines)

\* Witness of C10: a hyphen-ended line has consumed its one-token successor,
\* which is not in the output, and the line after it is kept.
C10_Witness ==
    /\ pc = "rejoined"
    /\ builtLines = <<B_Exam, B_Ple, B_Plain>>
    /\ rj.rejoined = << <<"e", "x", "a", "m", "p", "l", "e">>, B_Plain >>

(***************************************************************************)
(* Claims about the HeaderFooterDetector (checked under SpecDetector)       *)
(***************************************************************************)
\* ceil(0.3 * n)
Ceil30(n) == (3 * n + 9) \div 10

\* The normalized strings seen in the top zone only.
TopOnly == DOMAIN topTexts \ DOMAIN bottomTexts

\* C7 (as claimed): for every page count N >= 1, a string seen in the top
\* zone of exactly ceil(0.3 N) pages is in the suppression set, and one seen
\* in exactly ceil(0.3 N) - 1 pages is not.
C7_ThresholdForEveryN ==
    (pc = "resolved" /\ pageCount >= 1) =>
        \A t \in TopOnly :
            /\ topTexts[t] = Ceil30(pageCount) => t \in repeatingPatterns
            /\ topTexts[t] = Ceil30(pageCount) - 1 => t \notin repeatingPatterns

\* C7 (amended): for every page count N >= 4, a string seen in the top zone of
\* exactly ceil(0.3 N) pages is in the suppression set and one seen in
\* exactly ceil(0.3 N) - 1 pages is not; for N <= 3, where ceil(0.3 N) = 1
\* is below the floor of 2 occurrences, a string seen in one page is not
\* in the set.
C7_ThresholdFromFourPages ==
    (pc = "resolved" /\ pageCount >= 1) =>
        \A t \in TopOnly :
            /\ (pageCount >= 4 /\ topTexts[t] = Ceil30(pageCount))
                  => t \in repeatingPatterns
            /\ topTexts[t] = Ceil30(pageCount) - 1 => t \notin repeatingPatterns
            /\ (pageCount <= 3 /\ topTexts[t] = 1) => t \notin repeatingPatterns

\* Witness of C7: ten pages observed, the header in the top zone of three of
\* them, and the header suppressed.
C7_Witness ==
    /\ pc = "resolved"
    /\ pageCount = 10
    /\ S_MyBookHash \in TopOnly
    /\ topTexts[S_MyBookHash] = 3
    /\ S_MyBookHash \in repeatingPatterns

(***************************************************************************)
(* Claims about processPDF (checked under SpecProcess)                      *)
(***************************************************************************)
\* The items of page k that lie in its top zone.
TopZoneOf(k) ==
    SelectSeq(extractTextItems(pdf[k].content), LAMBDA i : InTopZone(i, pdf[k].height))

\* A running header: at least 2 pages, every page with items in its top
\* zone, whose joined text is the same on every page except for its digits.
RunningHeader ==
    /\ Len(pdf) >= 2
    /\ \A k \in 1..Len(pdf) :
          /\ pdf[k].height > 0
          /\ Len(TopZoneOf(k)) > 0
          /\ normalizeForMatch(ZoneText(TopZoneOf(k)))
                = normalizeForMatch(ZoneText(TopZoneOf(1)))

Contains(s, w) == \E k \in 1..(Len(s) - Len(w) + 1) : SubSeq(s, k, k + Len(w) - 1) = w

\* C8: with a running header in the top zone of every page of a document of
\* 2 or more pages, however the zone text is divided into fragments, no
\* top-zone fragment is left after the second-pass filter and no output
\* paragraph contains the header text.
C8_RunningHeaderRemoved ==
    (pc = "done" /\ entry = "text" /\ RunningHeader) =>
        /\ \A k \in 1..Len(filteredPages) : \A j \in 1..Len(filteredPages[k]) :
              ~InTopZone(filteredPages[k][j], pdf[k].height)
        /\ \A k \in 1..Len(pdf) : \A j \in 1..Len(TopZoneOf(k)) :
              ~isPageNumber(TopZoneOf(k)[j].str) =>
                 \A n \in 1..Len(FlatParagraphs(chapters)) :
                    ~Contains(FlatParagraphs(chapters)[n], Trim(TopZoneOf(k)[j].str))

(***************************************************************************)
(* Claims about the columns of a page (checked under SpecColumns)           *)
(***************************************************************************)
\* The fragments of the page, and those of its left and right cluster.
Fragments == {colItems[k] : k \in 1..Len(colItems)}
LeftCluster == {f \in Fragments : f.str[1] \in {"A", "B"}}
RightCluster == {f \in Fragments : f.str[1] = "R"}

\* The column starts of the two clusters are more than COLUMN_GAP_THRESHOLD
\* apart, and no left fragment reaches the right column's start.
ClustersApart ==
    \A l \in LeftCluster, r \in RightCluster :
        /\ r.x - 0 > COLUMN_GAP_THRESHOLD
        /\ l.x + l.width < r.x

\* The emitted line that holds fragment f (0: none does).
LineOf(f) ==
    IF \E n \in 1..Len(colLines) : Contains(colLines[n], f.str)
    THEN CHOOSE n \in 1..Len(colLines) : Contains(colLines[n], f.str)
    ELSE 0

\* C11: for two clusters whose column starts are more than
\* COLUMN_GAP_THRESHOLD apart and which span the same rows, every fragment is
\* emitted, every left-cluster fragment in a line before every line with a
\* right-cluster fragment, and each cluster's fragments top to bottom.
C11_LeftColumnThenRightColumn ==
    (pc = "emitted" /\ ClustersApart) =>
        /\ \A f \in Fragments : LineOf(f) > 0
        /\ \A l \in LeftCluster, r \in RightCluster : LineOf(l) < LineOf(r)
        /\ \A f, g \in Fragments :
              (f.str[1] = g.str[1] /\ f.y > g.y) => LineOf(f) < LineOf(g)

\* The dominant x-values of the page, computed from the fragments.
DominantSet ==
    {x \in {RoundTen(f.x) : f \in Fragments} :
        Cardinality({k \in 1..Len(colItems) : RoundTen(colItems[k].x) = x}) >= 3}

\* The gaps between consecutive dominant x-values, as pairs of their ends.
DominantGaps ==
    {g \in DominantSet \X DominantSet :
        g[1] < g[2] /\ ~\E x \in DominantSet : g[1] < x /\ x < g[2]}

MultiColumn ==
    /\ Len(colItems) >= 4
    /\ \E g \in DominantGaps : g[2] - g[1] > COLUMN_GAP_THRESHOLD

\* C12: when the page is multi-column, the left column holds exactly the
\* fragments left of the midpoint of the largest gap between consecutive
\* dominant x-values, and the right column the others.
C12_PartitionAtLargestGap ==
    (pc = "columns" /\ MultiColumn) =>
        \E g \in DominantGaps :
            /\ \A h \in DominantGaps : h[2] - h[1] <= g[2] - g[1]
            /\ Len(columns) = 2
            /\ {columns[1][k] : k \in 1..Len(columns[1])}
                  = {f \in Fragments : 2 * f.x < g[1] + g[2]}
            /\ {columns[2][k] : k \in 1..Len(columns[2])}
                  = {f \in Fragments : 2 * f.x >= g[1] + g[2]}

(***************************************************************************)
(* Claims about the OCR fallback (checked under SpecExtract, SpecProcess)   *)
(***************************************************************************)
\* C15: whenever a step of performOCR has failed, extractTextFromPage has
\* returned the empty string, its last progress message is the "OCR failed"
\* one for the page, and it has not thrown; it throws in no other case either.
C15_OcrFailureAbsorbed ==
    /\ pc = "extract" => ~ext.threw
    /\ (pc = "extract" /\ ext.failed) =>
          /\ ext.stage = "returned"
          /\ ext.result = <<>>
          /\ Len(ext.messages) > 0
          /\ ext.messages[Len(ext.messages)]
                = [page |-> ext.pageNum, msg |-> "OCR failed, skipping"]

\* Witness of C15: ocrPool.recognize was called for the page and rejected.
C15_Witness ==
    /\ pc = "extract"
    /\ ext.failed
    /\ ext.pageNum \in ocrJobs
    /\ ext.stage = "returned"

\* C14: every page of processPDF whose extracted text is not longer than
\* TEXT_THRESHOLD has had its bitmap given to ocrPool.recognize before its
\* text enters line building, and no page with a longer text has.
C14_ShortPagesGoThroughOcr ==
    (entry = "text" /\ pc \in {"second", "lines", "chapters", "built", "done"}) =>
        \A k \in 1..Len(filteredPages) :
            (Len(PageText(pdf[k].content)) <= TEXT_THRESHOLD) <=> (k \in ocrJobs)

\* C19: processPDF does not reject when the decoding of one page fails; the
\* failing page leaves an empty fragment list and every page is read.
C19_PageDecodeFailureAbsorbed ==
    /\ pc # "rejected"
    /\ (entry = "text" /\ pc = "done") => Len(pageDataCache) = Len(pdf)

\* The top and bottom tables after addPage was called once for each of the
\* pages 1..k, in page order.
RECURSIVE TopAfter(_)
TopAfter(k) ==
    IF k = 0 THEN <<>>
    ELSE addPageTop(TopAfter(k - 1), extractTextItems(pdf[k].content), pdf[k].height)

RECURSIVE BottomAfter(_)
BottomAfter(k) ==
    IF k = 0 THEN <<>>
    ELSE addPageBottom(BottomAfter(k - 1), extractTextItems(pdf[k].content), pdf[k].height)

\* C20: processPDF is two-pass.  While the first pass runs, each page read
\* took one call of the decoding engine and one addPage, in page order, and
\* nothing is filtered and no pattern resolved; after it, every page has
\* been read and added exactly once, the patterns are those of all the
\* pages, and the second pass filters the cached pages in source order
\* with no further call of the decoding engine.
C20_TwoPasses ==
    (entry = "text" /\ pc # "rejected") =>
        /\ pageCount = Len(pageDataCache)
        /\ engineCalls = Len(pageDataCache)
        /\ topTexts = TopAfter(pageCount)
        /\ bottomTexts = BottomAfter(pageCount)
        /\ \A k \in 1..Len(pageDataCache) :
              pageDataCache[k] = [items |-> extractTextItems(pdf[k].content),
                                  pageHeight |-> pdf[k].height]
        /\ pc = "first" =>
              (filteredPages = <<>> /\ allLines = <<>> /\ repeatingPatterns = {})
        /\ pc # "first" =>
              /\ pageCount = Len(pdf)
              /\ repeatingPatterns
                    = getRepeatingPatterns(TopAfter(Len(pdf)), BottomAfter(Len(pdf)), Len(pdf))
              /\ Len(filteredPages) <= Len(pdf)
              /\ pc # "second" => Len(filteredPages) = Len(pdf)
              /\ \A k \in 1..Len(filteredPages) :
                    filteredPages[k]
                       = FilterPage(extractTextItems(pdf[k].content), pdf[k].height,
                                    repeatingPatterns)

\* Witness of C20: a document of three pages, not all alike, is done, a
\* pattern was resolved and the filter removed a fragment of the last page.
C20_Witness ==
    /\ entry = "text"
    /\ pc = "done"
    /\ Len(pdf) = 3
    /\ pdf[1] # pdf[3]
    /\ repeatingPatterns # {}
    /\ Len(filteredPages[3]) < Len(pageDataCache[3].items)

(***************************************************************************)
(* Claims about OCRWorkerPool (checked under SpecPool)                      *)
(***************************************************************************)
RecognizeCalls == {c \in 1..Len(calls) : calls[c].kind = "recognize"}

Submissions(log) == Cardinality({k \in 1..Len(log) : log[k] = "submit"})

\* What one recognize() has done when it submits its job again.
RetryPrefix == <<"submit", "terminated", "terminate", "initialize">>

\* C16: one call of recognize submits its job at most twice; the second
\* submission comes only after a first job that failed with 'terminated',
\* a completed terminate() and a completed initialize(), in that order; a
\* first failure of another kind and a failure of the retry end the call
\* with that failure and nothing after it.
C16_RetryAtMostOnce ==
    \A c \in RecognizeCalls :
        LET log == calls[c].log
        IN  /\ Submissions(log) <= 2
            /\ \A k \in 2..Len(log) :
                  log[k] = "submit" => k = 5 /\ SubSeq(log, 1, 4) = RetryPrefix
            /\ \A k \in 1..Len(log) :
                  \/ log[k] = "error"
                  \/ log[k] = "terminated" /\ k # 2
                  => k = Len(log) /\ calls[c].pc = "rejected"

\* A recognize() whose retry failed with 'terminated' too, and was rejected.
C16_Witness ==
    \E c \in RecognizeCalls :
        /\ calls[c].log = RetryPrefix \o <<"submit", "terminated">>
        /\ calls[c].pc = "rejected"

\* No terminate() has begun, called from outside or by the retry of a
\* recognize().
NoTerminate ==
    \A c \in 1..Len(calls) :
        /\ calls[c].kind # "terminate"
        /\ \A k \in 1..Len(calls[c].log) : calls[c].log[k] \notin {"terminated", "terminate"}

\* C17: with initialize() and recognize() calls only, however they overlap,
\* one scheduler has been created and this.workers holds at most workerCount
\* workers, exactly workerCount once the pool reports initialized.
C17_InitializeIdempotent ==
    NoTerminate =>
        /\ tess.schedulers <= 1
        /\ pool.workers <= workerCount
        /\ pool.isInitialized => pool.workers = workerCount

\* Call c is a terminate() that resolves in this step.
TerminateResolves(c) ==
    /\ c <= Len(calls')
    /\ calls'[c].kind = "terminate"
    /\ calls'[c].pc = "resolved"
    /\ c <= Len(calls) => calls[c].pc # "resolved"

\* C18: when a terminate() resolves, every worker created so far has been
\* terminated and the pool reports initialized = false.
C18_TerminateReleasesAll ==
    [][\A c \in 1..MaxCalls :
          TerminateResolves(c) => /\ tess'.terminated = tess'.workers
                                  /\ ~pool'.isInitialized]_vars

(***************************************************************************)
(* Claims about detectChapterTitle in buildChapters (checked under          *)
(* SpecChapters)                                                            *)
(***************************************************************************)
\* A paragraph longer than the title that buildChapters would keep of it.
LongerThanTitle(para) == Len(para) > Len(First80(para))

\* C21: a paragraph longer than a title may be is never classified as a
\* chapter title, whatever it begins with: buildChapters keeps it as a
\* paragraph of a chapter and does not consume it as a title.
C21_LongParagraphNeverTitle ==
    \A j \in 1..bi :
        LongerThanTitle(stream[j]) =>
            /\ ~detectChapterTitle(stream[j])
            /\ pc = "built" =>
                  \E n \in 1..Len(FlatParagraphs(chapters)) :
                      FlatParagraphs(chapters)[n] = stream[j]

(***************************************************************************)
(* Claims about applyWidowOrphanFix (checked under SpecFix)                 *)
(***************************************************************************)
\* The first paragraph of the page at index i (0-based) before this step.
FirstOf(i) == fix.result[i + 1][1]

\* This step is an iteration of the loop that goes on to the next iteration
\* (the widow merge leaves the loop).
LoopGoesOn == fix.stage = "loop" /\ fix'.stage = "loop"

\* This step appended the first paragraph of the page at fix.i to the page
\* before it.
MovedBack ==
    /\ fix.i > 0
    /\ Len(fix.result[fix.i + 1]) > 0
    /\ fix'.result[fix.i] = Append(fix.result[fix.i], FirstOf(fix.i))

\* C22: outside the widow merge, an iteration of applyWidowOrphanFix moves
\* the first paragraph of a page other than the first to the end of the
\* previous page only if it is shorter than MIN_ORPHAN_CHARS, is no chapter
\* title and the previous page's paragraphs stay within 110% of
\* MAX_CHARS_PER_PAGE; if the move empties the page, the page is removed and
\* the next iteration examines the page that shifted into its index;
\* otherwise the page loses its first paragraph and the next page is next;
\* an iteration without a move changes no page.
C22_OrphanMove ==
    [][LoopGoesOn =>
         IF MovedBack
         THEN /\ Len(FirstOf(fix.i)) < MIN_ORPHAN_CHARS
              /\ ~detectChapterTitle(FirstOf(fix.i))
              /\ SumLen(fix'.result[fix.i]) * 100 <= MAX_CHARS_PER_PAGE * 110
              /\ SubSeq(fix'.result, 1, fix.i - 1) = SubSeq(fix.result, 1, fix.i - 1)
              /\ IF Len(fix.result[fix.i + 1]) = 1
                 THEN /\ fix'.i = fix.i
                      /\ SubSeq(fix'.result, fix.i + 1, Len(fix'.result))
                            = SubSeq(fix.result, fix.i + 2, Len(fix.result))
                 ELSE /\ fix'.i = fix.i + 1
                      /\ SubSeq(fix'.result, fix.i + 1, Len(fix'.result))
                            = <<Tail(fix.result[fix.i + 1])>>
                                 \o SubSeq(fix.result, fix.i + 2, Len(fix.result))
         ELSE /\ fix'.result = fix.result
              /\ fix'.i = fix.i + 1]_vars

\* The greedy pages were [para], [orphan], [para]: the orphan was moved back,
\* its page was removed, and the third page is at index 1, to be examined.
C22_Witness ==
    /\ fix.stage = "loop"
    /\ fix.i = 1
    /\ Len(fix.pages) = 3
    /\ Len(fix.pages[2]) = 1
    /\ Len(fix.pages[2][1]) < MIN_ORPHAN_CHARS
    /\ fix.result = <<fix.pages[1] \o fix.pages[2], fix.pages[3]>>

(***************************************************************************)
(* Claims about linesToParagraphs (checked under SpecParagraphs)            *)
(***************************************************************************)
NoPageNumber(line) == ~isPageNumber(line)

\* C23: every paragraph linesToParagraphs returns has at least
\* MIN_PARAGRAPH_LENGTH characters; a line that isPageNumber accepts starts
\* no paragraph and gives no text to one: no paragraph holds its text, and
\* the lines without it give the same paragraphs.
C23_ParagraphsLongEnoughNoPageNumbers ==
    pc = "paragraphs returned" =>
        /\ \A n \in 1..Len(stream) : Len(stream[n]) >= MIN_PARAGRAPH_LENGTH
        /\ \A k \in 1..Len(allLines) :
              isPageNumber(allLines[k]) =>
                  \A n \in 1..Len(stream) : ~Contains(stream[n], Trim(allLines[k]))
        /\ stream = linesToParagraphs(SelectSeq(allLines, NoPageNumber))

\* A page number of each of two forms stands between the lines of a
\* paragraph, which is returned without them.
C23_Witness ==
    /\ pc = "paragraphs returned"
    /\ allLines = <<L_Sentence, N_Page, N_Of, L_Short>>
    /\ stream = << L_Sentence \o <<" ">> \o L_Short >>

(***************************************************************************)
(* Claims about the page loop of processPDF (checked under SpecProcess)     *)
(***************************************************************************)
\* The pages fetched whose iteration of the page loop has ended: all of them
\* once the loop has ended, all but the last while it runs or after it was
\* left by a rejection.
PagesProcessed ==
    IF pc \in {"first", "rejected"} THEN 1..(engineCalls - 1) ELSE 1..engineCalls

\* C24: a page fetched from the decoding engine has had its resources
\* released once its iteration of the page loop has ended, before the next
\* page is fetched.
C24_PagesReleased == PagesProcessed \subseteq released

\* This step is the widow merge: the loop is left by break.
WidowStep == fix.stage = "loop" /\ fix'.stage = "filter"

\* x is strictly below percent % of MAX_CHARS_PER_PAGE.
BelowPercent(x, percent) == x * 100 < MAX_CHARS_PER_PAGE * percent

\* C25: every page of segmentIntoPages has a sum of paragraph lengths
\* strictly below 115% of MAX_CHARS_PER_PAGE, at every step of the
\* widow/orphan pass and when it returns: the pages of greedy packing and
\* splitting are within the budget, an orphan move leaves the receiving page
\* below 110% and a widow merge leaves it below 115%, whatever moves and
\* page removals came before.
C25_PagesBelow115 ==
    [][/\ \A k \in 1..Len(fix.pages) : SumLen(fix.pages[k]) <= MAX_CHARS_PER_PAGE
       /\ \A k \in 1..Len(fix'.result) : BelowPercent(SumLen(fix'.result[k]), 115)
       /\ (LoopGoesOn /\ MovedBack) => BelowPercent(SumLen(fix'.result[fix.i]), 110)
       /\ WidowStep => BelowPercent(SumLen(fix'.result[fix.i]), 115)]_vars

\* A page that received an orphan, whose page was removed, and then the
\* last page by the widow merge: it is returned with more than 110% of the
\* budget.
C25_Witness ==
    /\ fix.stage = "returned"
    /\ Len(fix.pages) = 3
    /\ Len(fix.result) = 1
    /\ ~BelowPercent(SumLen(fix.result[1]), 110)

(***************************************************************************)
(* Claims about the content of the pages (checked under SpecPages)          *)
(***************************************************************************)
\* The paragraphs of the pages, page after page.
RECURSIVE FlatPages(_)
FlatPages(pages) ==
    IF pages = <<>> THEN <<>> ELSE Head(pages) \o FlatPages(Tail(pages))

NoWhiteSpace(c) == c \notin WS

\* The characters of the strings, in order, without white space.
RECURSIVE Characters(_)
Characters(strings) ==
    IF strings = <<>> THEN <<>>
    ELSE SelectSeq(Head(strings), NoWhiteSpace) \o Characters(Tail(strings))

\* chunks are consecutive pieces of para, each within the budget: together
\* they hold the characters of para in order, white space at the cuts apart.
ChunksOf(chunks, para) ==
    /\ \A n \in 1..Len(chunks) : Len(chunks[n]) <= MAX_CHARS_PER_PAGE
    /\ Characters(chunks) = Characters(<<para>>)

\* flat is paras with each paragraph longer than the budget replaced by its
\* chunks.
RECURSIVE ChunkedList(_, _)
ChunkedList(flat, paras) ==
    IF paras = <<>> THEN flat = <<>>
    ELSE IF Len(Head(paras)) <= MAX_CHARS_PER_PAGE
    THEN /\ flat # <<>>
         /\ Head(flat) = Head(paras)
         /\ ChunkedList(Tail(flat), Tail(paras))
    ELSE \E n \in 1..Len(flat) :
            /\ ChunksOf(SubSeq(flat, 1, n), Head(paras))
            /\ ChunkedList(SubSeq(flat, n + 1, Len(flat)), Tail(paras))

\* The page (1-based) that holds the n-th paragraph of FlatPages(pages).
PageOfNth(pages, n) ==
    CHOOSE k \in 1..Len(pages) :
        /\ Len(FlatPages(SubSeq(pages, 1, k - 1))) < n
        /\ n <= Len(FlatPages(SubSeq(pages, 1, k)))

\* The returned pages hold the paragraphs of the greedy pages in the same
\* order, none on a later page than greedy packing put it.
OnlyMovedBack ==
    /\ FlatPages(result) = FlatPages(seg.pages)
    /\ \A n \in 1..Len(FlatPages(result)) :
          PageOfNth(result, n) <= PageOfNth(seg.pages, n)

C27_NoInnerHyphenEnd ==
    pc = "rejoined" =>
        \A k \in 1..(Len(rj.rejoined) - 1) : ~EndsWithHyphen(rj.rejoined[k])

(***************************************************************************)
(* Claims about concurrent calls of the pool (checked under SpecPool)       *)
(***************************************************************************)
\* The terminate() of call c settles in this step.
TerminateSettlesFor(c) ==
    /\ c <= Len(calls)
    /\ calls[c].pc \in {"terminating", "retryTerm"}
    /\ calls'[c].pc \notin {"terminating", "retryTerm"}

\* The retry job of call d is pending on the scheduler the pool holds.
RetryPendingOnPool(d) ==
    /\ d <= Len(calls)
    /\ calls[d].pc = "job2"
    /\ calls[d].on = pool.scheduler

\* C28: however recognize() and terminate() calls interleave, no job is
\* submitted and no worker is added while this.scheduler is null, and no
\* terminate() of one call terminates the scheduler on which the retry job
\* of another call is pending.
C28_NoNullSchedulerNoCancelledRetry ==
    [][/\ tess'.typeErrors = tess.typeErrors
       /\ \A c \in 1..MaxCalls, d \in 1..MaxCalls :
             (c # d /\ TerminateSettlesFor(c)) => ~RetryPendingOnPool(d)]_vars

(***************************************************************************)
(* Claims about the app slice (checked under SpecApp)                       *)
(***************************************************************************)
\* The action handled in this step.
Handled == dispatched'[Len(dispatched')]

\* C30: after every action of the app slice errorMessage is non-null only
\* with status 'error'; setCurrentDocumentId sets the document id and leaves
\* status and errorMessage as they were; resetApp gives the initial state.
C30_ErrorMessageOnlyWithError ==
    [][/\ app'.errorMessage # "null" => app'.status = "error"
       /\ Handled.type = "setCurrentDocumentId" =>
             /\ app'.status = app.status
             /\ app'.errorMessage = app.errorMessage
             /\ app'.currentDocumentId = Handled.payload
       /\ Handled.type = "resetApp" =>
             app' = [status |-> "idle", currentDocumentId |-> "null",
                     errorMessage |-> "null"]]_vars

\* An error was set, a document id was set after it, and the status was set
\* to 'ready': the message is gone and the document id is kept.
C30_Witness ==
    /\ Len(dispatched) = 3
    /\ dispatched[1].type = "setError"
    /\ dispatched[2].type = "setCurrentDocumentId"
    /\ dispatched[3] = [type |-> "setStatus", payload |-> "ready"]
    /\ app = [status |-> "ready", currentDocumentId |-> dispatched[2].payload,
              errorMessage |-> "null"]

(***************************************************************************)
(* Claims about the spreads of ClassicMode (checked under SpecReader)       *)
(***************************************************************************)
\* C29: in every render of ClassicMode for a document with at least one
\* page, 0 <= spreadIndex <= spreads.length - 1, whatever navigate calls
\* (several between two renders too) and viewport changes came before.
C29_SpreadIndexInRange ==
    /\ 0 <= reader.spreadIndex
    /\ reader.spreadIndex <= SpreadsLength(reader.pages, reader.isMobile) - 1


====
